---- MODULE Spec2Model ----
(***************************************************************************)
(* A model of app.py: the SQLite / MySQL connectors (connection lifecycle, *)
(* per-call handles, query validation) and the part of main() that hands   *)
(* statements to the connector.                                            *)
(*                                                                         *)
(* Strings are sequences of one-character strings, so that lower(),        *)
(* strip(), startswith() and the substring scan are computed character by  *)
(* character, as Python computes them.                                     *)
(***************************************************************************)
EXTENDS Naturals, Sequences, FiniteSets, TLC

VARIABLES
    dbType,                 \* "SQLite" | "MySQL": the class of the connector
    MYSQL_AVAILABLE,        \* import mysql.connector succeeded
    SQLALCHEMY_AVAILABLE,   \* import sqlalchemy succeeded
    desc,                   \* the connection descriptor given to __init__
    connection,             \* self.connection
    engine,                 \* self.engine
    connection_config,      \* self.connection_config
    handles,                \* database handles: private ones and the engine's pool
    life,                   \* last lifecycle event of the connector
    cres,                   \* what the last connect() did, NONE once something else ran
    dres,                   \* what the last disconnect() did, NONE once something else ran
    pc, op, arg, conn, phase, result,   \* the data-fetching calls in flight
    query_lower,            \* validate_query's local variable query_lower
    session,                \* st.session_state of main()
    accepted,               \* Custom SQL strings validate_query has accepted
    handed,                 \* the last statement main() handed to get_table_data
    made,                   \* what the last create_database_connector() did
    tables,                 \* the list the last get_tables() returned
    vb,                     \* build_visual_query: its widgets, its filter list, its result
    sidebar                 \* render_database_connection_form: connected, db_connector

connVars == <<connection, engine, connection_config>>
envVars  == <<dbType, MYSQL_AVAILABLE, SQLALCHEMY_AVAILABLE, desc>>
callVars == <<pc, op, arg, conn, phase, result, query_lower>>
uiVars   == <<session, accepted, handed, sidebar>>
vars == <<dbType, MYSQL_AVAILABLE, SQLALCHEMY_AVAILABLE, desc, connection, engine,
          connection_config, handles, life, cres, dres, pc, op, arg, conn, phase,
          result, query_lower, session, accepted, handed, made, tables, vb, sidebar>>

NONE == "None"

----------------------------------------------------------------------------
(* Strings                                                                 *)

UpperChars == <<"A","B","C","D","E","F","G","H","I","J","K","L","M",
                "N","O","P","Q","R","S","T","U","V","W","X","Y","Z">>
LowerChars == <<"a","b","c","d","e","f","g","h","i","j","k","l","m",
                "n","o","p","q","r","s","t","u","v","w","x","y","z">>

\* str.lower() on one character
LowerChar(ch) ==
    IF \E i \in DOMAIN UpperChars : UpperChars[i] = ch
    THEN LowerChars[CHOOSE i \in DOMAIN UpperChars : UpperChars[i] = ch]
    ELSE ch

\* str.lower()
LowerStr(s) == [i \in DOMAIN s |-> LowerChar(s[i])]

\* the characters str.strip() removes
Whitespace == {" ", "\t", "\n"}

RECURSIVE LStrip(_)
LStrip(s) == IF s # <<>> /\ Head(s) \in Whitespace THEN LStrip(Tail(s)) ELSE s

RECURSIVE RStrip(_)
RStrip(s) ==
    IF s # <<>> /\ s[Len(s)] \in Whitespace
    THEN RStrip(SubSeq(s, 1, Len(s) - 1))
    ELSE s

\* str.strip()
Strip(s) == RStrip(LStrip(s))

\* str.startswith(p)
StartsWith(s, p) == Len(s) >= Len(p) /\ SubSeq(s, 1, Len(p)) = p

\* p in s
Contains(s, p) ==
    \E i \in 1..(Len(s) + 1) :
        i + Len(p) - 1 <= Len(s) /\ SubSeq(s, i, i + Len(p) - 1) = p

RECURSIVE Concat(_)
Concat(ss) == IF ss = <<>> THEN <<>> ELSE Head(ss) \o Concat(Tail(ss))

Digits == <<"0","1","2","3","4","5","6","7","8","9">>

\* str(n) of a non-negative integer
RECURSIVE IntStr(_)
IntStr(n) == IF n < 10 THEN <<Digits[n + 1]>> ELSE IntStr(n \div 10) \o <<Digits[(n % 10) + 1]>>

\* A query argument that is not a string (None): query.lower() raises on it.
NoneQuery == <<"<None>">>

----------------------------------------------------------------------------
(* validate_query: the checks made before any handle is opened             *)

select == <<"s","e","l","e","c","t">>

prohibitedNoDrop ==
    << [w |-> <<"i","n","s","e","r","t">>,         name |-> "INSERT"],
       [w |-> <<"u","p","d","a","t","e">>,         name |-> "UPDATE"],
       [w |-> <<"d","e","l","e","t","e">>,         name |-> "DELETE"],
       [w |-> <<"c","r","e","a","t","e">>,         name |-> "CREATE"],
       [w |-> <<"a","l","t","e","r">>,             name |-> "ALTER"],
       [w |-> <<"t","r","u","n","c","a","t","e">>, name |-> "TRUNCATE"] >>

prohibited ==
    << [w |-> <<"i","n","s","e","r","t">>,         name |-> "INSERT"],
       [w |-> <<"u","p","d","a","t","e">>,         name |-> "UPDATE"],
       [w |-> <<"d","e","l","e","t","e">>,         name |-> "DELETE"],
       [w |-> <<"d","r","o","p">>,                 name |-> "DROP"],
       [w |-> <<"c","r","e","a","t","e">>,         name |-> "CREATE"],
       [w |-> <<"a","l","t","e","r">>,             name |-> "ALTER"],
       [w |-> <<"t","r","u","n","c","a","t","e">>, name |-> "TRUNCATE"] >>

\* query.lower().strip()
Normalize(query) == Strip(LowerStr(query))

Verdict(ok, text, detail) == [ok |-> ok, text |-> text, detail |-> detail]

StartCheckContains(ql) == Contains(ql, select)

\* query_lower.startswith('select')
StartCheck(ql) == StartsWith(ql, select)

\* for word in prohibited: if word in query_lower: the index of the first word of
\* the list that is found, 0 if none is
FirstProhibited(ql) ==
    LET hits == {i \in DOMAIN prohibited : Contains(ql, prohibited[i].w)}
    IN  IF hits = {} THEN 0 ELSE CHOOSE i \in hits : \A j \in hits : i <= j

ScanVerdictNoChecks(ql) == Verdict(TRUE, "pass", "")

\* The start-token check and the keyword scan on the normalised string:
\* a verdict, or "pass" when the dry-run is to be made.
ScanVerdict(ql) ==
    IF ~StartCheck(ql)
    THEN Verdict(FALSE, "Query must start with SELECT", "")
    ELSE IF FirstProhibited(ql) # 0
    THEN Verdict(FALSE, "operations are not allowed", prohibited[FirstProhibited(ql)].name)
    ELSE Verdict(TRUE, "pass", "")

\* What validate_query decides before it touches the database
PreChecks(query) ==
    IF query = NoneQuery
    THEN Verdict(FALSE, "Query error", "AttributeError")
    ELSE ScanVerdict(Normalize(query))

----------------------------------------------------------------------------
(* The connector object and its environment                                *)

Callers   == {"A", "B"}
\* create_engine(pool_size=3, max_overflow=0): the pool holds at most three handles
PoolSlots == {"p1", "p2", "p3"}
Slots     == Callers \cup PoolSlots

PortMin == 1
PortMax == 65535

NoStmt   == [kind |-> "none"]
NoHandle == [st |-> "none", by |-> "-", user |-> "-", cur |-> NoStmt]
NoRes    == [called |-> FALSE]

SQLiteDescs ==
    {[db_path |-> p, host |-> "", database |-> "", username |-> "", port |-> 0] :
        p \in {"", "data.db"}}

MySQLDescs ==
    {[db_path |-> "", host |-> h, database |-> d, username |-> u, port |-> p] :
        h \in {"", "db.host"}, d \in {"", "shop"}, u \in {"", "root"},
        p \in {PortMin - 1, PortMax, PortMax + 1}}

\* What the file system and the driver answer during one SQLiteConnector.connect()
SQLiteEnvs == [exists : BOOLEAN, open : {"ok", "error"}]

\* What the network, the server and the drivers answer during one MySQLConnector.connect()
MySQLEnvs ==
    [probe : {"ok", "refused", "exception"},
     mc    : {"ok", "login_mysql_error", "login_other_error",
              "query_mysql_error", "query_other_error"},
     sa    : {"ok", "create_error", "login_error", "query_error"}]

\* The outcome of one connect(): the value returned, whether an exception left the
\* call, the st.error texts, the I/O events in order, and the fields it leaves.
ConnectOutcome(ret, raised, errors, log, eng, cfg, pooled) ==
    [called |-> TRUE, ret |-> ret, raised |-> raised, errors |-> errors, log |-> log,
     engine |-> eng, connection_config |-> cfg, pooled |-> pooled]

SQLiteConnectNoExistsCheck(env) ==
    IF env.open = "error"
    THEN ConnectOutcome(FALSE, FALSE, <<"Error connecting to SQLite database">>,
                        <<"open">>, engine, connection_config, "keep")
    ELSE ConnectOutcome(TRUE, FALSE, <<>>, <<"open", "close">>,
                        engine, connection_config, "keep")

SQLiteConnectNoTry(env) ==
    IF ~env.exists
    THEN ConnectOutcome(FALSE, FALSE, <<"Database file not found">>, <<"exists">>,
                        engine, connection_config, "keep")
    ELSE IF env.open = "error"
    THEN ConnectOutcome(FALSE, TRUE, <<>>, <<"exists", "open">>,
                        engine, connection_config, "keep")
    ELSE ConnectOutcome(TRUE, FALSE, <<>>, <<"exists", "open", "close">>,
                        engine, connection_config, "keep")

\* SQLiteConnector.connect
SQLiteConnect(env) ==
    IF ~env.exists
    THEN ConnectOutcome(FALSE, FALSE, <<"Database file not found">>, <<"exists">>,
                        engine, connection_config, "keep")
    ELSE IF env.open = "error"
    THEN ConnectOutcome(FALSE, FALSE, <<"Error connecting to SQLite database">>,
                        <<"exists", "open">>, engine, connection_config, "keep")
    ELSE ConnectOutcome(TRUE, FALSE, <<>>, <<"exists", "open", "close">>,
                        engine, connection_config, "keep")

\* MySQLConnector.connect: the pre-connection validation
validation_errors ==
    (IF desc.host = "" THEN <<"Host/Hostname is required">> ELSE <<>>) \o
    (IF desc.database = "" THEN <<"Database name is required">> ELSE <<>>) \o
    (IF desc.username = "" THEN <<"Username is required">> ELSE <<>>) \o
    (IF desc.port < PortMin \/ desc.port > PortMax
     THEN <<"Port must be between 1 and 65535">> ELSE <<>>)

\* MySQLConnector._test_network_connectivity: TRUE, or the st.error text
test_network_connectivity(env) ==
    CASE env.probe = "ok"        -> [ok |-> TRUE,  errors |-> <<>>]
      [] env.probe = "refused"   -> [ok |-> FALSE, errors |-> <<"Cannot reach host:port">>]
      [] env.probe = "exception" -> [ok |-> FALSE, errors |-> <<"Network connectivity test failed">>]

\* MySQLConnector._connect_with_sqlalchemy, entered with the log and errors so far
connect_with_sqlalchemy(env, log, errors) ==
    CASE env.sa = "create_error" ->
            ConnectOutcome(FALSE, FALSE, errors \o <<"SQLAlchemy connection failed">>,
                           log \o <<"create_engine">>, engine, connection_config, "keep")
      [] env.sa = "login_error" ->
            ConnectOutcome(FALSE, FALSE, errors \o <<"SQLAlchemy connection failed">>,
                           log \o <<"create_engine", "login_sa">>,
                           "engine", connection_config, "new")
      [] env.sa = "query_error" ->
            ConnectOutcome(FALSE, FALSE, errors \o <<"SQLAlchemy connection failed">>,
                           log \o <<"create_engine", "login_sa", "open", "query", "release">>,
                           "engine", connection_config, "new_idle")
      [] env.sa = "ok" ->
            ConnectOutcome(TRUE, FALSE, errors,
                           log \o <<"create_engine", "login_sa", "open", "query", "release">>,
                           "engine", connection_config, "new_idle")

\* MySQLConnector._handle_mysql_error: every branch reports with st.error and returns False
handle_mysql_error(log) ==
    ConnectOutcome(FALSE, FALSE, <<"MySQL Error">>, log, engine, connection_config, "keep")

\* MySQLConnector._connect_with_mysql_connector
connect_with_mysql_connector(env, log) ==
    CASE env.mc = "ok" ->
            ConnectOutcome(TRUE, FALSE, <<>>,
                           log \o <<"login_mc", "open", "query", "query", "close">>,
                           engine, "config", "keep")
      [] env.mc = "login_mysql_error" -> handle_mysql_error(log \o <<"login_mc">>)
      [] env.mc = "query_mysql_error" ->
            handle_mysql_error(log \o <<"login_mc", "open", "query">>)
      [] env.mc \in {"login_other_error", "query_other_error"} ->
            LET log2 == log \o (IF env.mc = "login_other_error"
                                THEN <<"login_mc">>
                                ELSE <<"login_mc", "open", "query">>)
                err  == <<"Unexpected MySQL connection error">>
            IN  IF SQLALCHEMY_AVAILABLE
                THEN connect_with_sqlalchemy(env, log2, err)
                ELSE ConnectOutcome(FALSE, FALSE, err, log2,
                                    engine, connection_config, "keep")

MySQLConnectNoValidation(env) ==
    IF ~test_network_connectivity(env).ok
    THEN ConnectOutcome(FALSE, FALSE, test_network_connectivity(env).errors,
                        <<"probe">>, engine, connection_config, "keep")
    ELSE IF MYSQL_AVAILABLE
    THEN connect_with_mysql_connector(env, <<"probe">>)
    ELSE IF SQLALCHEMY_AVAILABLE
    THEN connect_with_sqlalchemy(env, <<"probe">>, <<>>)
    ELSE ConnectOutcome(FALSE, FALSE, <<"MySQL dependencies not installed">>,
                        <<"probe">>, engine, connection_config, "keep")

MySQLConnectNoProbe(env) ==
    IF validation_errors # <<>>
    THEN ConnectOutcome(FALSE, FALSE, <<"Connection validation failed">> \o validation_errors,
                        <<>>, engine, connection_config, "keep")
    ELSE IF MYSQL_AVAILABLE
    THEN connect_with_mysql_connector(env, <<>>)
    ELSE IF SQLALCHEMY_AVAILABLE
    THEN connect_with_sqlalchemy(env, <<>>, <<>>)
    ELSE ConnectOutcome(FALSE, FALSE, <<"MySQL dependencies not installed">>,
                        <<>>, engine, connection_config, "keep")

\* MySQLConnector.connect
MySQLConnect(env) ==
    IF validation_errors # <<>>
    THEN ConnectOutcome(FALSE, FALSE, <<"Connection validation failed">> \o validation_errors,
                        <<>>, engine, connection_config, "keep")
    ELSE IF ~test_network_connectivity(env).ok
    THEN ConnectOutcome(FALSE, FALSE, test_network_connectivity(env).errors,
                        <<"probe">>, engine, connection_config, "keep")
    ELSE IF MYSQL_AVAILABLE
    THEN connect_with_mysql_connector(env, <<"probe">>)
    ELSE IF SQLALCHEMY_AVAILABLE
    THEN connect_with_sqlalchemy(env, <<"probe">>, <<>>)
    ELSE ConnectOutcome(FALSE, FALSE, <<"MySQL dependencies not installed">>,
                        <<"probe">>, engine, connection_config, "keep")

\* The pool of the engine a connect() leaves: untouched, or that of a new engine,
\* holding the handle the test opened and released if it got that far.
PoolAfterConnect(pooled) ==
    CASE pooled = "keep" -> handles
      [] pooled = "new"  -> [s \in Slots |-> IF s \in PoolSlots THEN NoHandle ELSE handles[s]]
      [] pooled = "new_idle" ->
            [s \in Slots |->
                IF s = "p1" THEN [st |-> "open", by |-> "connect", user |-> "-", cur |-> NoStmt]
                ELSE IF s \in PoolSlots THEN NoHandle ELSE handles[s]]

Idle == \A c \in Callers : pc[c] = "idle"

\* connector.connect(), between data-fetching calls
Connect ==
    /\ Idle
    /\ \E out \in IF dbType = "SQLite"
                  THEN {SQLiteConnect(env) : env \in SQLiteEnvs}
                  ELSE {MySQLConnect(env) : env \in MySQLEnvs} :
          /\ cres' = out
          /\ engine' = out.engine
          /\ connection_config' = out.connection_config
          /\ handles' = PoolAfterConnect(out.pooled)
          /\ life' = IF out.raised THEN "connect_raised"
                     ELSE IF out.ret THEN "connected" ELSE "connect_failed"
    /\ dres' = NoRes
    /\ made' = NoRes
    /\ UNCHANGED <<envVars, connection, callVars, uiVars, tables, vb>>

----------------------------------------------------------------------------
(* create_database_connector                                               *)

\* The dialect tags the factory is called with
Tags == {"SQLite", "MySQL", "sqlite", "PostgreSQL", ""}

\* What one call of the factory did: the class of the connector it returned and the
\* descriptor the constructor stored, or the exception it raised
FactoryOutcome(tag, raised, class, d) ==
    [called |-> TRUE, tag |-> tag, raised |-> raised, class |-> class, desc |-> d]

NoDesc == [db_path |-> "", host |-> "", database |-> "", username |-> "", port |-> 0]

create_database_connectorNoElse(db_type, kwargs) ==
    IF db_type = "SQLite"
    THEN FactoryOutcome(db_type, "", "SQLiteConnector",
                        [NoDesc EXCEPT !.db_path = kwargs.db_path])
    ELSE FactoryOutcome(db_type, "", "MySQLConnector", [kwargs EXCEPT !.db_path = ""])

\* create_database_connector(db_type, **kwargs)
create_database_connector(db_type, kwargs) ==
    IF db_type = "SQLite"
    THEN FactoryOutcome(db_type, "", "SQLiteConnector",
                        [NoDesc EXCEPT !.db_path = kwargs.db_path])
    ELSE IF db_type = "MySQL"
    THEN FactoryOutcome(db_type, "", "MySQLConnector", [kwargs EXCEPT !.db_path = ""])
    ELSE FactoryOutcome(db_type, "ValueError", NONE, NoDesc)

\* The factory is called; a connector it returns replaces the one at hand
Create(tag, kwargs) ==
    /\ Idle
    /\ LET out == create_database_connector(tag, kwargs)
       IN  /\ made' = out
           /\ IF out.raised = ""
              THEN /\ dbType' = (IF out.class = "SQLiteConnector" THEN "SQLite" ELSE "MySQL")
                   /\ desc' = out.desc
                   /\ connection' = NONE
                   /\ engine' = NONE
                   /\ connection_config' = NONE
                   /\ handles' = [s \in Slots |-> NoHandle]
                   /\ life' = "fresh"
              ELSE UNCHANGED <<dbType, desc, connVars, handles, life>>
    /\ cres' = NoRes
    /\ dres' = NoRes
    /\ UNCHANGED <<MYSQL_AVAILABLE, SQLALCHEMY_AVAILABLE, callVars, uiVars, tables, vb>>

----------------------------------------------------------------------------
(* disconnect                                                              *)

\* engine.dispose(): closes the handles checked in to the pool and starts a new pool
Dispose(h) ==
    [s \in Slots |-> IF s \in PoolSlots /\ h[s].user = "-" THEN NoHandle ELSE h[s]]

DisconnectOutcome(raised, c, e, cfg, h) ==
    [called |-> TRUE, raised |-> raised, connection |-> c, engine |-> e,
     connection_config |-> cfg, handles |-> h]

BaseDisconnectNoTry(self, h, closeFails, disposeFails) ==
    IF self.connection # NONE /\ closeFails
    THEN DisconnectOutcome(TRUE, self.connection, self.engine, self.connection_config, h)
    ELSE IF self.engine # NONE /\ disposeFails
    THEN DisconnectOutcome(TRUE, self.connection, self.engine, self.connection_config, h)
    ELSE DisconnectOutcome(FALSE, self.connection, self.engine, self.connection_config,
                           IF self.engine # NONE THEN Dispose(h) ELSE h)

\* DatabaseConnector.disconnect: close() and dispose() each inside try / except: pass
BaseDisconnect(self, h, closeFails, disposeFails) ==
    DisconnectOutcome(FALSE, self.connection, self.engine, self.connection_config,
                      IF self.engine # NONE /\ ~disposeFails THEN Dispose(h) ELSE h)

\* MySQLConnector.disconnect: super().disconnect(), then connection_config = None
MySQLDisconnect(self, h, closeFails, disposeFails) ==
    LET b == BaseDisconnect(self, h, closeFails, disposeFails)
    IN  IF b.raised THEN b ELSE [b EXCEPT !.connection_config = NONE]

\* disconnect() of the connector's class
Disconnected(self, h, closeFails, disposeFails) ==
    IF dbType = "SQLite"
    THEN BaseDisconnect(self, h, closeFails, disposeFails)
    ELSE MySQLDisconnect(self, h, closeFails, disposeFails)

Self == [connection |-> connection, engine |-> engine,
         connection_config |-> connection_config]

SelfOf(out) == [connection |-> out.connection, engine |-> out.engine,
                connection_config |-> out.connection_config]

\* connector.disconnect(), between data-fetching calls
Disconnect ==
    /\ Idle
    /\ \E closeFails \in BOOLEAN, disposeFails \in BOOLEAN :
          LET out == Disconnected(Self, handles, closeFails, disposeFails)
          IN  /\ dres' = out
              /\ connection' = out.connection
              /\ engine' = out.engine
              /\ connection_config' = out.connection_config
              /\ handles' = out.handles
              /\ life' = IF out.raised THEN "disconnect_raised" ELSE "disconnected"
    /\ cres' = NoRes
    /\ made' = NoRes
    /\ UNCHANGED <<envVars, callVars, uiVars, tables, vb>>

----------------------------------------------------------------------------
(* The data-fetching calls: get_tables, get_table_data, get_table_info,    *)
(* validate_query.  A call is a sequence of steps (obtain a handle,        *)
(* execute, fetch and close, return), so that two calls can interleave.    *)

Ops == {"get_tables", "get_table_data", "get_table_info", "validate_query"}

NoArg  == [table |-> <<>>, custom |-> <<>>]
NoCall == [kind |-> "none"]

\* The statement a call has the engine execute in its current phase
Stmt(c) == [kind |-> op[c], arg |-> arg[c], phase |-> phase[c]]

\* return False, f"Query error: {str(e)}" and the other verdicts of validate_query
VerdictResult(ok, text, detail, of) ==
    [kind |-> "verdict", ok |-> ok, text |-> text, detail |-> detail, of |-> of,
     reported |-> FALSE]

FailureNoCatch(o, text, detail) ==
    [kind |-> "raised", ok |-> FALSE, text |-> text, detail |-> detail, of |-> NoStmt,
     reported |-> FALSE]

FailureSilent(o, text, detail) ==
    IF o = "validate_query"
    THEN VerdictResult(FALSE, "Query error", detail, NoStmt)
    ELSE [kind |-> "marker", ok |-> FALSE, text |-> text, detail |-> detail,
          of |-> NoStmt, reported |-> FALSE]

\* The failure marker of an operation ([] or None), after st.error(text);
\* validate_query returns the failure in its verdict instead.
Failure(o, text, detail) ==
    IF o = "validate_query"
    THEN VerdictResult(FALSE, "Query error", detail, NoStmt)
    ELSE [kind |-> "marker", ok |-> FALSE, text |-> text, detail |-> detail,
          of |-> NoStmt, reported |-> TRUE]

Value(of) == [kind |-> "value", ok |-> TRUE, text |-> "", detail |-> "", of |-> of,
              reported |-> FALSE]

\* if self.engine: ... else: conn = self._get_connection()
UsesEngine == dbType = "MySQL" /\ engine # NONE

\* MySQLConnector._get_connection: which branch yields the handle
GetConnectionSource ==
    IF connection_config # NONE THEN "config"
    ELSE IF engine # NONE THEN "engine"
    ELSE "raise"

SharedSlot(c) == "A"

\* _get_connection(): sqlite3.connect(...) / mysql.connector.connect(...) make a new
\* handle on every call; it is held in the caller's local variable conn.
PrivateSlot(c) == c

\* The pool hands out a handle that is checked in, or opens one in a free place
PoolCheckout(h) ==
    LET idle == {s \in PoolSlots : h[s].st = "open" /\ h[s].user = "-"}
        free == {s \in PoolSlots : h[s].st = "none"}
    IN  IF idle # {} THEN CHOOSE s \in idle : TRUE
        ELSE IF free # {} THEN CHOOSE s \in free : TRUE
        ELSE "-"

Opened(c) == [st |-> "open", by |-> c, user |-> c, cur |-> NoStmt]

\* The position of a character in the collation of the engine
CharRank(ch) ==
    IF \E i \in DOMAIN LowerChars : LowerChars[i] = ch
    THEN CHOOSE i \in DOMAIN LowerChars : LowerChars[i] = ch
    ELSE 0

\* x comes before y in ascending order, or is y
RECURSIVE NameLeq(_, _)
NameLeq(x, y) ==
    IF x = <<>> THEN TRUE
    ELSE IF y = <<>> THEN FALSE
    ELSE IF Head(x) # Head(y) THEN CharRank(Head(x)) < CharRank(Head(y))
    ELSE NameLeq(Tail(x), Tail(y))

\* The tables of the database
Catalog == { <<"a">>, <<"a","b">>, <<"b">> }

\* The orders in which the engine's catalog can deliver the names
CatalogOrders ==
    {o \in [1..Cardinality(Catalog) -> Catalog] : \A i, j \in DOMAIN o : i # j => o[i] # o[j]}

\* ... ORDER BY name
OrderByName(rows) ==
    CHOOSE o \in CatalogOrders :
        /\ {o[i] : i \in DOMAIN o} = {rows[i] : i \in DOMAIN rows}
        /\ \A i, j \in DOMAIN o : i < j => NameLeq(o[i], o[j])

\* get_tables: [row[0] for row in cursor.fetchall()] of "SELECT name FROM sqlite_master
\* WHERE type='table' ORDER BY name" on SQLite, of "SHOW TABLES" or of
\* inspector.get_table_names() on MySQL
get_tables_rows(rows) == IF dbType = "SQLite" THEN OrderByName(rows) ELSE rows

NoTables == [set |-> FALSE]

\* A call begins: the arguments are bound
CallStart(c, o, a) ==
    /\ pc[c] = "idle"
    /\ op' = [op EXCEPT ![c] = o]
    /\ arg' = [arg EXCEPT ![c] = a]
    /\ phase' = [phase EXCEPT ![c] = 1]
    /\ pc' = [pc EXCEPT ![c] = IF o = "validate_query" THEN "check" ELSE "open"]
    /\ cres' = NoRes
    /\ dres' = NoRes
    /\ made' = NoRes
    /\ UNCHANGED <<envVars, connVars, handles, life, conn, result, query_lower, uiVars,
                   tables, vb>>

Return(c, r) ==
    /\ result' = [result EXCEPT ![c] = r]
    /\ pc' = [pc EXCEPT ![c] = "returned"]

\* validate_query: query_lower = query.lower().strip(); a query that is no string
\* raises into the except clause
Check(c) ==
    /\ pc[c] = "check"
    /\ IF arg[c].custom = NoneQuery
       THEN /\ Return(c, VerdictResult(FALSE, "Query error", "AttributeError", NoStmt))
            /\ UNCHANGED query_lower
       ELSE /\ query_lower' = [query_lower EXCEPT ![c] = Normalize(arg[c].custom)]
            /\ pc' = [pc EXCEPT ![c] = "scan"]
            /\ UNCHANGED result
    /\ UNCHANGED <<envVars, connVars, handles, life, cres, dres, op, arg, conn, phase,
                   uiVars, made, tables, vb>>

\* validate_query: the start-token check and the prohibited-keyword scan
Scan(c) ==
    /\ pc[c] = "scan"
    /\ LET v == ScanVerdict(query_lower[c])
       IN  IF v.text = "pass"
           THEN /\ pc' = [pc EXCEPT ![c] = "open"]
                /\ UNCHANGED result
           ELSE Return(c, VerdictResult(v.ok, v.text, v.detail, NoStmt))
    /\ UNCHANGED <<envVars, connVars, handles, life, cres, dres, op, arg, conn, phase,
                   query_lower, uiVars, made, tables, vb>>

\* The call obtains its handle
Open(c) ==
    /\ pc[c] = "open"
    /\ \E ok \in BOOLEAN :
          IF UsesEngine
          THEN \* engine.connect() / pd.read_sql_query(query, self.engine) / inspect(engine)
               LET s == PoolCheckout(handles)
               IN  IF ok /\ s # "-"
                   THEN /\ handles' = [handles EXCEPT ![s] =
                                         IF @.st = "open" THEN [@ EXCEPT !.user = c]
                                         ELSE Opened(c)]
                        /\ conn' = [conn EXCEPT ![c] = s]
                        /\ pc' = [pc EXCEPT ![c] = "exec"]
                        /\ UNCHANGED result
                   ELSE /\ Return(c, Failure(op[c], "Error", "OperationalError"))
                        /\ UNCHANGED <<handles, conn>>
          ELSE IF dbType = "MySQL" /\ (GetConnectionSource = "raise" \/ ~ok)
          THEN \* _get_connection reports and returns None
               /\ Return(c, IF op[c] = "validate_query"
                            THEN [VerdictResult(FALSE,
                                    "Cannot validate query - no connection available",
                                    "", NoStmt) EXCEPT !.reported = TRUE]
                            ELSE [Failure(op[c], "Failed to get database connection",
                                          "") EXCEPT !.reported = TRUE])
               /\ UNCHANGED <<handles, conn>>
          ELSE IF ~ok
          THEN \* sqlite3.connect raises into the except clause of the operation
               /\ Return(c, Failure(op[c], "Error", "OperationalError"))
               /\ UNCHANGED <<handles, conn>>
          ELSE /\ handles' = [handles EXCEPT ![PrivateSlot(c)] = Opened(c)]
               /\ conn' = [conn EXCEPT ![c] = PrivateSlot(c)]
               /\ pc' = [pc EXCEPT ![c] = "exec"]
               /\ UNCHANGED result
    /\ UNCHANGED <<envVars, connVars, life, cres, dres, op, arg, phase, query_lower,
                   uiVars, made, tables, vb>>

\* What leaving the block does to the handle when the statement raised: the
\* engine's context managers check the handle in; a private handle is left as it is,
\* because conn.close() is not in a finally clause.
ReleaseOnError(h, s) ==
    IF s \in PoolSlots THEN [h EXCEPT ![s].user = "-", ![s].cur = NoStmt] ELSE h

\* The statement is sent to the engine on the call's handle
Exec(c) ==
    /\ pc[c] = "exec"
    /\ \E ok \in BOOLEAN :
          IF ok /\ handles[conn[c]].st = "open"
          THEN /\ handles' = [handles EXCEPT ![conn[c]].cur = Stmt(c)]
               /\ pc' = [pc EXCEPT ![c] = "fetch"]
               /\ UNCHANGED result
          ELSE /\ handles' = ReleaseOnError(handles, conn[c])
               /\ Return(c, Failure(op[c], "Error", "DatabaseError"))
    /\ UNCHANGED <<envVars, connVars, life, cres, dres, op, arg, conn, phase,
                   query_lower, uiVars, made, tables, vb>>

\* conn.close(), or the handle going back to the pool (which resets it)
Release(h, s) ==
    IF s \in PoolSlots THEN [h EXCEPT ![s].user = "-", ![s].cur = NoStmt]
    ELSE [h EXCEPT ![s].st = "closed", ![s].user = "-"]

\* The rows are read from the handle, and the handle is closed
Fetch(c) ==
    /\ pc[c] = "fetch"
    /\ LET s   == conn[c]
           got == handles[s].cur
       IN  IF handles[s].st # "open"
           THEN /\ handles' = ReleaseOnError(handles, s)
                /\ Return(c, Failure(op[c], "Error", "ProgrammingError"))
                /\ UNCHANGED <<phase, conn>>
           ELSE IF op[c] = "get_table_info" /\ phase[c] = 1
           THEN \* the row count is read; the column list follows
                /\ result' = [result EXCEPT ![c] = [kind |-> "partial", of |-> got]]
                /\ phase' = [phase EXCEPT ![c] = 2]
                /\ IF dbType = "SQLite"
                   THEN /\ pc' = [pc EXCEPT ![c] = "exec"]
                        /\ UNCHANGED <<handles, conn>>
                   ELSE /\ pc' = [pc EXCEPT ![c] = "open"]
                        /\ handles' = Release(handles, s)
                        /\ conn' = [conn EXCEPT ![c] = "-"]
           ELSE /\ handles' = Release(handles, s)
                /\ UNCHANGED <<phase, conn>>
                /\ Return(c, CASE op[c] = "validate_query" ->
                                    VerdictResult(TRUE, "Query is valid", "", got)
                               [] op[c] = "get_table_info" ->
                                    Value(<<result[c].of, got>>)
                               [] OTHER -> Value(<<got>>))
    /\ \E rows \in IF op[c] = "get_tables" THEN CatalogOrders ELSE {<<>>} :
          tables' = IF op[c] = "get_tables" /\ pc'[c] = "returned" /\ result'[c].ok
                    THEN [set |-> TRUE, names |-> get_tables_rows(rows)]
                    ELSE tables
    /\ UNCHANGED <<envVars, connVars, life, cres, dres, op, arg, query_lower, uiVars,
                   made, vb>>

\* The caller has the result; the call's local variables are gone
Finish(c) ==
    /\ pc[c] = "returned"
    /\ pc' = [pc EXCEPT ![c] = "idle"]
    /\ op' = [op EXCEPT ![c] = "-"]
    /\ arg' = [arg EXCEPT ![c] = NoArg]
    /\ conn' = [conn EXCEPT ![c] = "-"]
    /\ phase' = [phase EXCEPT ![c] = 1]
    /\ result' = [result EXCEPT ![c] = NoCall]
    /\ query_lower' = [query_lower EXCEPT ![c] = <<>>]
    /\ handles' = [s \in Slots |->
                     IF s = PrivateSlot(c) /\ \A d \in Callers \ {c} : conn[d] # s
                     THEN NoHandle
                     ELSE IF handles[s].by = c /\ s \in PoolSlots
                     THEN [handles[s] EXCEPT !.by = "past"]
                     ELSE handles[s]]
    /\ tables' = IF op[c] = "get_tables" THEN NoTables ELSE tables
    /\ UNCHANGED <<envVars, connVars, life, cres, dres, uiVars, made, vb>>

----------------------------------------------------------------------------
(* Inputs                                                                  *)

TableT == <<"t">>

\* The Custom SQL strings the connector's calls are given
CallQueries ==
    { <<"s","e","l","e","c","t"," ","1">>,
      <<"S","e","l","e","c","t"," ","d","r","o","p","p","e","d","_","c","o","l","u","m","n"," ","f","r","o","m"," ","t">>,
      <<"d","r","o","p"," ","t","a","b","l","e"," ","t">> }

CallInputs ==
    {<<"get_tables", NoArg>>,
     <<"get_table_info", [table |-> TableT, custom |-> <<>>]>>,
     <<"get_table_data", [table |-> TableT, custom |-> <<>>]>>}
    \cup {<<"get_table_data", [table |-> TableT, custom |-> q]>> : q \in CallQueries}
    \cup {<<"validate_query", [table |-> <<>>, custom |-> q]>> :
             q \in CallQueries \cup {NoneQuery}}

\* Raw SQL strings for validate_query: every concatenation of at most MaxPieces pieces
MaxPieces == 3

Pieces ==
    { <<" ">>,
      <<"S","E","L","E","C","T">>,
      <<"S","e","l","e","c","t">>,
      <<"1">>,
      <<"d","r">>,
      <<"o","p">> }

\* Words of the statement kinds the validator names, in mixed case
Words ==
    { <<"I","n","s","e","r","t">>,
      <<"U","P","D","A","T","E">>,
      <<"d","e","l","e","t","e">>,
      <<"D","r","o","P">>,
      <<"c","r","e","a","t","e">>,
      <<"a","l","t","e","r">>,
      <<"T","R","U","N","C","A","T","E">> }

\* What may stand before and after such a word
Before == { <<>>, <<"s","e","l","e","c","t"," ">>, <<" ","S","E","L","E","C","T"," ","l","a","s","t","_">> }
After  == { <<>>, <<"d","_","a","t"," ","f","r","o","m"," ","t">> }

WordQueries == {b \o w \o a : b \in Before, w \in Words, a \in After}

RECURSIVE PieceSeqs(_)
PieceSeqs(n) ==
    IF n = 0 THEN {<<>>}
    ELSE LET shorter == PieceSeqs(n - 1)
         IN  shorter \cup {Append(ps, p) : ps \in {x \in shorter : Len(x) = n - 1},
                                             p \in Pieces}

RawQueries == {Concat(ps) : ps \in PieceSeqs(MaxPieces)} \cup WordQueries \cup {NoneQuery}

----------------------------------------------------------------------------
(* main(): the query options, the preview and the full download            *)

Tables     == {"t1"}
QueryTypes == {"All Data", "Row Range", "Visual Query Builder", "Custom SQL"}

TableChars(t) == <<"t","1">>

\* The backtick character, written by name
Backtick == "backtick"

QuoteOpen  == IF dbType = "MySQL" THEN <<Backtick>> ELSE <<"[">>
QuoteClose == IF dbType = "MySQL" THEN <<Backtick>> ELSE <<"]">>

\* default_query = f"SELECT * FROM [{table}] WHERE " (backticks for MySQL)
default_query(t) ==
    <<"S","E","L","E","C","T"," ","*"," ","F","R","O","M"," ">> \o QuoteOpen \o TableChars(t) \o QuoteClose \o <<" ","W","H","E","R","E"," ">>

\* build_visual_query with its widgets as first shown: all columns, no filter,
\* no sorting, no row limit
VisualQuery(t) ==
    <<"S","E","L","E","C","T"," ","*"," ","F","R","O","M"," ">> \o QuoteOpen \o TableChars(t) \o QuoteClose

\* What the user may type into the SQL Query text area
TypedQueries ==
    { <<"S","E","L","E","C","T"," ","1">>,
      <<"S","E","L","E","C","T"," ","1"," ","L","I","M","I","T"," ","5","0","0">>,
      <<"d","r","o","p"," ","t","a","b","l","e"," ","t","1"," ","-","-"," ","l","i","m","i","t">> }

limitWord   == <<"l","i","m","i","t">>
LimitSuffix == <<" ","L","I","M","I","T"," ","1","0","0">>
PreviewCap  == 100

None    == <<>>
Some(x) == <<x>>

NoPreview  == [set |-> FALSE]
NoDownload == [set |-> FALSE]

\* SQLiteConnector.get_table_data: the statement given to pd.read_sql_query
SQLiteTableQuery(table_name, custom_query, limit, offset) ==
    IF custom_query # None
    THEN custom_query
    ELSE <<"S","E","L","E","C","T"," ","*"," ","F","R","O","M"," ","[">> \o table_name \o <<"]">> \o
         (IF limit # None /\ limit[1] # 0
          THEN <<" ","L","I","M","I","T"," ">> \o IntStr(limit[1]) \o
               (IF offset # None /\ offset[1] # 0
                THEN <<" ","O","F","F","S","E","T"," ">> \o IntStr(offset[1])
                ELSE <<>>)
          ELSE <<>>)

\* MySQLConnector.get_table_data: the statement given to pd.read_sql_query
MySQLTableQuery(table_name, custom_query, limit, offset) ==
    IF custom_query # None
    THEN custom_query
    ELSE <<"S","E","L","E","C","T"," ","*"," ","F","R","O","M"," ",Backtick>> \o table_name \o <<Backtick>> \o
         (IF limit # None
          THEN <<" ","L","I","M","I","T"," ">> \o IntStr(limit[1]) \o
               (IF offset # None
                THEN <<" ","O","F","F","S","E","T"," ">> \o IntStr(offset[1])
                ELSE <<>>)
          ELSE <<>>)

\* get_table_data of the connector's class
get_table_data_query(table_name, custom_query, limit, offset) ==
    IF dbType = "SQLite"
    THEN SQLiteTableQuery(table_name, custom_query, limit, offset)
    ELSE MySQLTableQuery(table_name, custom_query, limit, offset)

\* get_table_data as main() calls it: the arguments handed over and the statement
\* the connector builds from them
Handed(use, t, qt, custom, text, limit, offset) ==
    [use |-> use, table |-> t, query_type |-> qt, custom |-> custom, text |-> text,
     limit |-> limit, offset |-> offset,
     query |-> get_table_data_query(TableChars(t), text, limit, offset)]

\* The preview's call of get_table_data
PreviewCall(pv) ==
    IF pv.query_type \in {"Custom SQL", "Visual Query Builder"} /\ pv.custom_query # None
    THEN Handed("preview", pv.table, pv.query_type, pv.custom_query,
                IF ~Contains(LowerStr(pv.custom_query), limitWord)
                THEN pv.custom_query \o LimitSuffix
                ELSE pv.custom_query,
                None, None)
    ELSE IF pv.query_type = "Row Range"
    THEN Handed("preview", pv.table, pv.query_type, None, None,
                IF pv.limit # None /\ pv.limit[1] # 0
                THEN Some(IF pv.limit[1] < PreviewCap THEN pv.limit[1] ELSE PreviewCap)
                ELSE Some(PreviewCap),
                pv.offset)
    ELSE Handed("preview", pv.table, pv.query_type, None, None, Some(PreviewCap), None)

\* The call of get_table_data behind "Prepare Full Dataset for Download"
FullCall(pv) ==
    IF pv.query_type \in {"Custom SQL", "Visual Query Builder"}
    THEN Handed("full", pv.table, pv.query_type, pv.custom_query, pv.custom_query,
                None, None)
    ELSE IF pv.query_type = "Row Range"
    THEN Handed("full", pv.table, pv.query_type, None, None, pv.limit, pv.offset)
    ELSE Handed("full", pv.table, pv.query_type, None, None, None, None)

\* The values validate_query can return for a query: True only past the checks
\* and only when the handle and the dry-run succeed
ValidateOutcomes(q) == IF PreChecks(q).text = "pass" THEN {TRUE, FALSE} ELSE {FALSE}

\* The preview section of one script run: the statement it hands over, if any
PreviewRun == IF session.preview.set THEN {PreviewCall(session.preview)} ELSE {}

\* The radio "Choose extraction method" of a table is changed
UIChooseQueryType(t, qt) ==
    /\ session.query_type[t] # qt
    /\ session' = [session EXCEPT !.query_type[t] = qt]
    /\ handed' = PreviewRun
    /\ UNCHANGED <<sidebar, accepted, envVars, connVars, handles, life, cres, dres, callVars, made, tables, vb>>

\* The SQL Query text area of a table is edited
UIEditQuery(t, q) ==
    /\ session.query_type[t] = "Custom SQL"
    /\ session.custom_query[t] # q
    /\ session' = [session EXCEPT !.custom_query[t] = q]
    /\ handed' = PreviewRun
    /\ UNCHANGED <<sidebar, accepted, envVars, connVars, handles, life, cres, dres, callVars, made, tables, vb>>

\* The button "Validate Query"
UIValidate(t) ==
    /\ session.query_type[t] = "Custom SQL"
    /\ \E is_valid \in ValidateOutcomes(session.custom_query[t]) :
          accepted' = IF is_valid THEN accepted \cup {session.custom_query[t]}
                      ELSE accepted
    /\ handed' = PreviewRun
    /\ UNCHANGED <<sidebar, session, envVars, connVars, handles, life, cres, dres, callVars, made, tables, vb>>

\* The button "Preview Data & Download": the choice is stored, st.rerun(), and the
\* next run fetches the preview
UIPreview(t) ==
    \E limit \in {Some(1), Some(150)}, offset \in {Some(0), Some(5)} :
       LET qt == session.query_type[t]
           pv == [set |-> TRUE, table |-> t, query_type |-> qt,
                  custom_query |-> CASE qt = "Custom SQL" -> session.custom_query[t]
                                     [] qt = "Visual Query Builder" -> VisualQuery(t)
                                     [] OTHER -> None,
                  limit  |-> IF qt = "Row Range" THEN limit ELSE None,
                  offset |-> IF qt = "Row Range" THEN offset ELSE None]
       IN  /\ session' = [session EXCEPT !.preview = pv]
           /\ handed' = {PreviewCall(pv)}
           /\ UNCHANGED <<sidebar, accepted, envVars, connVars, handles, life, cres, dres,
                          callVars, made, tables, vb>>

\* The button "Prepare Full Dataset for Download", shown when the preview's fetch
\* returned a table; the full fetch may return None
UIPrepareFull ==
    /\ session.preview.set
    /\ \E fetched \in BOOLEAN :
          session' = IF fetched
                     THEN [session EXCEPT !.download =
                             [set |-> TRUE, table |-> session.preview.table,
                              of |-> FullCall(session.preview)]]
                     ELSE session
    /\ handed' = {PreviewCall(session.preview), FullCall(session.preview)}
    /\ UNCHANGED <<sidebar, accepted, envVars, connVars, handles, life, cres, dres, callVars, made, tables, vb>>

\* The button "Close Preview", shown when the preview's fetch returned a table
UIClosePreview ==
    /\ session.preview.set
    /\ session' = [session EXCEPT !.preview = NoPreview]
    /\ handed' = {PreviewCall(session.preview)}
    /\ UNCHANGED <<sidebar, accepted, envVars, connVars, handles, life, cres, dres, callVars, made, tables, vb>>

----------------------------------------------------------------------------
(* render_database_connection_form: the buttons Connect and Disconnect      *)

\* st.session_state of main() on the first run of the script, and on the run after
\* every key was deleted
FirstRun ==
    [query_type   |-> [t \in Tables |-> "All Data"],
     custom_query |-> [t \in Tables |-> default_query(t)],
     preview      |-> NoPreview,
     download     |-> NoDownload]

\* A connector object: its class, its fields, its handles, and whether disconnect()
\* was called on it
Connector(class, d, self, h) ==
    [class |-> class, desc |-> d, connection |-> self.connection, engine |-> self.engine,
     connection_config |-> self.connection_config, handles |-> h, disconnected |-> FALSE]

\* st.session_state.connected and .db_connector as the form initialises them, and
\* the connectors .db_connector named before
NoSidebar == [connected |-> FALSE, db_connector |-> None, past |-> {}]

\* The connectors st.session_state.db_connector named and names no more
Past == sidebar.past \cup {sidebar.db_connector[i] : i \in DOMAIN sidebar.db_connector}

\* The selectbox "Database Type" and the connection fields are edited; the
\* connector variables stand for the connector the factory would make of them
UIEditForm(db_type, connector_params) ==
    /\ db_type = "MySQL" => MYSQL_AVAILABLE \/ SQLALCHEMY_AVAILABLE
    /\ <<db_type, connector_params>> # <<dbType, desc>>
    /\ dbType' = db_type
    /\ desc' = connector_params
    /\ cres' = NoRes
    /\ dres' = NoRes
    /\ made' = NoRes
    /\ UNCHANGED <<MYSQL_AVAILABLE, SQLALCHEMY_AVAILABLE, connVars, handles, life,
                   callVars, uiVars, tables, vb>>

\* The button "Connect to Database", disabled while the MySQL fields do not validate
UIConnect ==
    /\ ~(dbType = "MySQL" /\ validation_errors # <<>>)
    /\ IF \/ dbType = "SQLite" /\ desc.db_path = ""
          \/ dbType = "MySQL" /\ (desc.host = "" \/ desc.database = "" \/ desc.username = "")
       THEN /\ made' = NoRes
            /\ cres' = NoRes
            /\ UNCHANGED sidebar
       ELSE /\ made' = create_database_connector(dbType, desc)
            /\ \E out \in IF dbType = "SQLite"
                          THEN {SQLiteConnect(env) : env \in SQLiteEnvs}
                          ELSE {MySQLConnect(env) : env \in MySQLEnvs} :
                  /\ cres' = out
                  /\ sidebar' =
                       IF ~out.raised /\ out.ret
                       THEN [connected |-> TRUE, past |-> Past,
                             db_connector |->
                                Some(Connector(dbType, desc,
                                               [connection |-> connection,
                                                engine |-> out.engine,
                                                connection_config |-> out.connection_config],
                                               PoolAfterConnect(out.pooled)))]
                       ELSE [sidebar EXCEPT !.connected = FALSE]
    /\ dres' = NoRes
    /\ UNCHANGED <<envVars, connVars, handles, life, callVars, session, accepted, handed,
                   tables, vb>>

\* The button "Disconnect", shown while st.session_state.connected: disconnect() on
\* the stored connector, then every key of st.session_state is deleted
UIDisconnect ==
    /\ sidebar.connected
    /\ IF sidebar.db_connector = None
       THEN /\ dres' = NoRes
            /\ sidebar' = [NoSidebar EXCEPT !.past = Past]
       ELSE \E closeFails \in BOOLEAN, disposeFails \in BOOLEAN :
               LET c   == sidebar.db_connector[1]
                   out == IF c.class = "SQLite"
                          THEN BaseDisconnect(c, c.handles, closeFails, disposeFails)
                          ELSE MySQLDisconnect(c, c.handles, closeFails, disposeFails)
               IN  /\ dres' = out
                   /\ sidebar' =
                        IF out.raised THEN sidebar
                        ELSE [NoSidebar EXCEPT !.past =
                                sidebar.past \cup
                                {[c EXCEPT !.connection = out.connection,
                                           !.engine = out.engine,
                                           !.connection_config = out.connection_config,
                                           !.handles = out.handles,
                                           !.disconnected = TRUE]}]
    /\ session' = FirstRun
    /\ handed' = {}
    /\ cres' = NoRes
    /\ made' = NoRes
    /\ UNCHANGED <<envVars, connVars, handles, life, callVars, accepted, tables, vb>>

----------------------------------------------------------------------------
(* build_visual_query                                                      *)

\* str.upper() on one character
UpperChar(ch) ==
    IF \E i \in DOMAIN LowerChars : LowerChars[i] = ch
    THEN UpperChars[CHOOSE i \in DOMAIN LowerChars : LowerChars[i] = ch]
    ELSE ch

\* str.upper()
UpperStr(s) == [i \in DOMAIN s |-> UpperChar(s[i])]

\* str.replace(old, new) for a one-character old
RECURSIVE Replace(_, _, _)
Replace(s, old, new) ==
    IF s = <<>> THEN <<>>
    ELSE (IF Head(s) = old THEN new ELSE <<Head(s)>>) \o Replace(Tail(s), old, new)

\* Filter values as the widgets deliver them: st.number_input(step=1) an int,
\* st.number_input(format="%.4f") a float, st.text_input a str
IntValue(n)      == [type |-> "int", n |-> n]
FloatValue(n, d) == [type |-> "float", n |-> n, d |-> d]
StrValue(s)      == [type |-> "str", s |-> s]

\* str(value); a float n.d with one decimal digit prints as n.d
PyStr(value) ==
    CASE value.type = "int"   -> IntStr(value.n)
      [] value.type = "float" -> IntStr(value.n) \o <<".">> \o IntStr(value.d)
      [] value.type = "str"   -> value.s

\* table_name and table_info['column_info'] of the table at hand
table_name  == <<"p","e","o","p","l","e">>
column_info == << [name |-> <<"a","g","e">>,   type |-> <<"i","n","t","e","g","e","r">>],
                  [name |-> <<"c","i","t","y">>,  type |-> <<"v","a","r","c","h","a","r","(","2","0",")">>],
                  [name |-> <<"p","r","i","c","e">>, type |-> <<"D","o","u","b","l","e">>] >>

\* columns = [col[0] for col in table_info['column_info']]
columns == [i \in DOMAIN column_info |-> column_info[i].name]

\* column_types.get(column, 'TEXT').upper()
col_type(column) ==
    IF \E i \in DOMAIN column_info : column_info[i].name = column
    THEN UpperStr(column_info[CHOOSE i \in DOMAIN column_info :
                                column_info[i].name = column].type)
    ELSE <<"T","E","X","T">>

NumericWords ==
    { <<"I","N","T">>, <<"R","E","A","L">>, <<"N","U","M","E","R","I","C">>, <<"D","E","C","I","M","A","L">>, <<"F","L","O","A","T">>, <<"D","O","U","B","L","E">>, <<"S","E","R","I","A","L">>, <<"B","I","G","I","N","T">> }

\* is_numeric = any(x in col_type for x in ['INT', 'REAL', ...])
is_numeric(column) ==
    \E type \in {col_type(column)} : \E x \in NumericWords : Contains(type, x)

QuoteIdentBrackets(db_type, name) == <<"[">> \o name \o <<"]">>

\* f"[{name}]" for SQLite, backticks for MySQL
QuoteIdent(db_type, name) ==
    IF db_type = "SQLite" THEN <<"[">> \o name \o <<"]">>
    ELSE <<Backtick>> \o name \o <<Backtick>>

quoted_valueAlwaysQuoted(column, value) ==
    <<"'">> \o Replace(PyStr(value), "'", <<"'", "'">>) \o <<"'">>

\* quoted_value: the literal of a comparison
quoted_value(column, value) ==
    IF ~is_numeric(column) /\ value.type = "str"
    THEN <<"'">> \o Replace(value.s, "'", <<"'", "'">>) \o <<"'">>
    ELSE PyStr(value)

\* str(value).replace('%', '%%')
like_value(value) == Replace(PyStr(value), "%", <<"%", "%">>)

ComparisonOperators ==
    {"equals (=)", "not equals (!=)", "greater than (>)", "less than (<)",
     "greater or equal (>=)", "less or equal (<=)"}

LikeOperators == {"contains (LIKE)", "starts with", "ends with"}

NullOperators == {"is null", "is not null"}

\* The operators the selectbox offers for a column
operators(column) ==
    IF is_numeric(column)
    THEN ComparisonOperators \cup NullOperators
    ELSE {"equals (=)", "not equals (!=)"} \cup LikeOperators \cup NullOperators

\* condition: the rendered condition of one filter, <<>> for an operator that is
\* none of the eleven
Condition(db_type, f) ==
    LET quoted_col == QuoteIdent(db_type, f.column)
        qv == quoted_value(f.column, f.value)
    IN  CASE f.operator = "equals (=)"            -> quoted_col \o <<" ","="," ">> \o qv
          [] f.operator = "not equals (!=)"       -> quoted_col \o <<" ","!","="," ">> \o qv
          [] f.operator = "greater than (>)"      -> quoted_col \o <<" ",">"," ">> \o qv
          [] f.operator = "less than (<)"         -> quoted_col \o <<" ","<"," ">> \o qv
          [] f.operator = "greater or equal (>=)" -> quoted_col \o <<" ",">","="," ">> \o qv
          [] f.operator = "less or equal (<=)"    -> quoted_col \o <<" ","<","="," ">> \o qv
          [] f.operator = "contains (LIKE)" ->
                quoted_col \o <<" ","L","I","K","E"," ","'","%">> \o like_value(f.value) \o <<"%","'">>
          [] f.operator = "starts with" ->
                quoted_col \o <<" ","L","I","K","E"," ","'">> \o like_value(f.value) \o <<"%","'">>
          [] f.operator = "ends with" ->
                quoted_col \o <<" ","L","I","K","E"," ","'","%">> \o like_value(f.value) \o <<"'">>
          [] f.operator = "is null"     -> quoted_col \o <<" ","I","S"," ","N","U","L","L">>
          [] f.operator = "is not null" -> quoted_col \o <<" ","I","S"," ","N","O","T"," ","N","U","L","L">>
          [] OTHER -> <<>>

\* The characters of a logic keyword of st.selectbox("Logic", ["AND", "OR"])
LogicWord(logic) == IF logic = "AND" THEN <<"A","N","D">> ELSE <<"O","R">>

LogicPrefixAlways(i, logic) == <<" ">> \o LogicWord(logic) \o <<" ">>

\* if i > 0: f" {logic} {condition}" else condition (i counts from 1 here)
LogicPrefix(i, logic) == IF i > 1 THEN <<" ">> \o LogicWord(logic) \o <<" ">> ELSE <<>>

\* "".join(where_conditions) for the first n filters
RECURSIVE WhereConditions(_, _, _)
WhereConditions(db_type, filters, n) ==
    IF n = 0 THEN <<>>
    ELSE LET condition == Condition(db_type, filters[n])
         IN  WhereConditions(db_type, filters, n - 1) \o
             (IF condition = <<>> THEN <<>>
              ELSE LogicPrefix(n, filters[n].logic) \o condition)

\* ", ".join([f"[{col}]" for col in selected_columns])
RECURSIVE JoinQuoted(_, _)
JoinQuoted(db_type, cols) ==
    IF cols = <<>> THEN <<>>
    ELSE IF Len(cols) = 1 THEN QuoteIdent(db_type, cols[1])
    ELSE QuoteIdent(db_type, cols[1]) \o <<","," ">> \o JoinQuoted(db_type, Tail(cols))

\* selected_columns: all columns, or what st.multiselect returned
selected_columns(w) ==
    IF w.col_selection_type = "All Columns" THEN columns ELSE w.selected

select_clause(db_type, w) ==
    IF w.col_selection_type = "All Columns" THEN <<"*">>
    ELSE JoinQuoted(db_type, w.selected)

WherePartAlways(db_type, w) ==
    <<" ","W","H","E","R","E"," ">> \o WhereConditions(db_type, w.filters, Len(w.filters))

\* if where_conditions: query += " WHERE " + "".join(where_conditions)
WherePart(db_type, w) ==
    LET where_conditions == WhereConditions(db_type, w.filters, Len(w.filters))
    IN  IF where_conditions # <<>>
        THEN <<" ","W","H","E","R","E"," ">> \o where_conditions
        ELSE <<>>

OrderPartAlways(db_type, w) ==
    <<" ","O","R","D","E","R"," ","B","Y"," ">> \o QuoteIdent(db_type, w.sort_column) \o <<" ">> \o
    (IF w.sort_direction = "Ascending (A-Z)" THEN <<"A","S","C">> ELSE <<"D","E","S","C">>)

\* if sort_enabled and sort_column: query += f" ORDER BY [{sort_column}] {direction}"
OrderPart(db_type, w) ==
    IF w.sort_enabled /\ w.sort_column # <<>>
    THEN <<" ","O","R","D","E","R"," ","B","Y"," ">> \o QuoteIdent(db_type, w.sort_column) \o <<" ">> \o
         (IF w.sort_direction = "Ascending (A-Z)" THEN <<"A","S","C">> ELSE <<"D","E","S","C">>)
    ELSE <<>>

\* if limit_enabled and row_limit: query += f" LIMIT {row_limit}"
LimitPart(w) ==
    IF w.limit_enabled /\ w.row_limit # 0
    THEN <<" ","L","I","M","I","T"," ">> \o IntStr(w.row_limit)
    ELSE <<>>

build_visual_queryNoColumnCheck(db_type, w) ==
    Some(<<"S","E","L","E","C","T"," ">> \o select_clause(db_type, w) \o <<" ","F","R","O","M"," ">> \o
         QuoteIdent(db_type, table_name) \o
         WherePart(db_type, w) \o OrderPart(db_type, w) \o LimitPart(w))

\* build_visual_query(table_name, table_info, db_type) on the widgets w: the SQL
\* string, or None
build_visual_query(db_type, w) ==
    IF selected_columns(w) = <<>>
    THEN None
    ELSE Some(<<"S","E","L","E","C","T"," ">> \o select_clause(db_type, w) \o <<" ","F","R","O","M"," ">> \o
              QuoteIdent(db_type, table_name) \o
              WherePart(db_type, w) \o OrderPart(db_type, w) \o LimitPart(w))

\* The filter lists are capped at MaxFilters conditions
MaxFilters == 2

\* The widget that delivers a filter's value: st.number_input(step=1) for INT, SERIAL
\* and BIGINT types, st.number_input(format="%.4f") for the other numeric types,
\* st.text_input for the rest
ValueWidget(column) ==
    LET has(type, words) == \E x \in words : Contains(type, x)
    IN  CHOOSE widget \in {"int", "float", "str"} :
          \E type \in {col_type(column)} :
            widget =
              IF has(type, { <<"I","N","T">>, <<"S","E","R","I","A","L">>, <<"B","I","G","I","N","T">> })
              THEN "int"
              ELSE IF has(type, { <<"R","E","A","L">>, <<"N","U","M","E","R","I","C">>, <<"D","E","C","I","M","A","L">>,
                                  <<"F","L","O","A","T">>, <<"D","O","U","B","L","E">> })
              THEN "float"
              ELSE "str"

\* A filter as the display loop leaves it: the operator is one the selectbox of the
\* column offers, the value is of the type the value widget of the column returns
WidgetConsistent(f) ==
    /\ f.operator \in operators(f.column)
    /\ f.value.type = ValueWidget(f.column)
    /\ f.logic \in {"AND", "OR"}

Filter(column, operator, value, logic) ==
    [column |-> column, operator |-> operator, value |-> value, logic |-> logic]

\* The conditions a user enters: every operator, on a column that offers it
FilterItems ==
    {Filter(<<"a","g","e">>, o, IntValue(30), "AND") :
        o \in {"greater than (>)", "less than (<)", "greater or equal (>=)",
               "less or equal (<=)", "is null"}}
    \cup {Filter(<<"p","r","i","c","e">>, o, FloatValue(2, 5), "AND") :
             o \in {"equals (=)", "not equals (!=)"}}
    \cup {Filter(<<"c","i","t","y">>, o, StrValue(<<"O","'","B","r","i","e","n">>), "AND") :
             o \in {"equals (=)", "not equals (!=)", "is not null"} \cup LikeOperators}
    \cup {Filter(<<"c","i","t","y">>, "contains (LIKE)", StrValue(<<"5","0","%","[","a","]">>), "AND")}

\* A few conditions under either logic keyword
LogicItems ==
    {Filter(<<"a","g","e">>, "greater than (>)", IntValue(30), l) : l \in {"AND", "OR"}}
    \cup {Filter(<<"c","i","t","y">>, "equals (=)", StrValue(<<"R","o","m","e">>), l) : l \in {"AND", "OR"}}
    \cup {Filter(<<"c","i","t","y">>, "ends with", StrValue(<<"O","'","B","r","i","e","n">>), "OR")}

\* The sequences of at most n elements of S
RECURSIVE SeqsUpTo(_, _)
SeqsUpTo(S, n) ==
    IF n = 0 THEN {<<>>}
    ELSE LET shorter == SeqsUpTo(S, n - 1)
         IN  shorter \cup {Append(x, e) : x \in {y \in shorter : Len(y) = n - 1}, e \in S}

Widgets(type, selected, filters, sort_enabled, sort_column, sort_direction,
        limit_enabled, row_limit) ==
    [col_selection_type |-> type, selected |-> selected, filters |-> filters,
     sort_enabled |-> sort_enabled, sort_column |-> sort_column,
     sort_direction |-> sort_direction,
     limit_enabled |-> limit_enabled, row_limit |-> row_limit]

\* The default of st.number_input("Maximum rows:", ..., value=1000)
DefaultRowLimit == 1000

\* The widgets as first shown, with a filter list
PlainWidgets(filters) ==
    Widgets("All Columns", <<>>, filters, FALSE, <<>>, "Ascending (A-Z)", FALSE, 0)

\* The column selections: all columns, none, and two columns picked in an order
\* other than the table's
ColumnChoices ==
    {<<"All Columns", <<>>>>, <<"Specific Columns", <<>>>>,
     <<"Specific Columns", << <<"c","i","t","y">>, <<"a","g","e">> >>>>}

\* The sort settings: off, or on a selected column in either direction
SortChoices ==
    {<<FALSE, <<>>, "Ascending (A-Z)">>}
    \cup {<<TRUE, <<"a","g","e">>, d>> : d \in {"Ascending (A-Z)", "Descending (Z-A)"}}

\* The widget states of the visual query builder the runs start from
VisualInputs ==
    {PlainWidgets(fs) : fs \in SeqsUpTo(FilterItems, MaxFilters)}
    \cup {Widgets(cc[1], cc[2], fs, sc[1], sc[2], sc[3], le,
                  IF le THEN DefaultRowLimit ELSE 0) :
             cc \in ColumnChoices, fs \in SeqsUpTo(LogicItems, MaxFilters),
             sc \in SortChoices, le \in BOOLEAN}

NoBuild == [called |-> FALSE]

\* The widgets w before the script has run on them: st.rerun() ends the run of the
\* button that changed them, and the next run renders them
Rerun(w) == [called |-> TRUE, built |-> FALSE, w |-> w, query |-> None]

\* One script run of build_visual_query on the widgets w
Built(w) == [called |-> TRUE, built |-> TRUE, w |-> w, query |-> build_visual_query(dbType, w)]

VBUnchanged ==
    UNCHANGED <<envVars, connVars, handles, life, cres, dres, callVars, uiVars, made,
                tables>>

\* The script runs with the widgets as the user has set them
VBBuild ==
    /\ vb.called
    /\ ~vb.built
    /\ vb' = Built(vb.w)
    /\ VBUnchanged

\* The button "Add Filter": a condition on the first column is appended, with the
\* default value of that column's type, and st.rerun() restarts the script
VBAddFilter ==
    /\ vb.called
    /\ vb.built
    /\ vb.query # None
    /\ Len(vb.w.filters) < MaxFilters
    /\ LET default_value == CASE ValueWidget(columns[1]) = "int" -> IntValue(0)
                              [] ValueWidget(columns[1]) = "float" -> FloatValue(0, 0)
                              [] OTHER -> StrValue(<<>>)
           item == Filter(columns[1], "equals (=)", default_value, "AND")
       IN  vb' = Rerun([vb.w EXCEPT !.filters = Append(@, item)])
    /\ VBUnchanged

\* The button "X" of the i-th filter: the filter is popped and st.rerun() restarts the script
VBRemoveFilter(i) ==
    /\ vb.called
    /\ vb.built
    /\ vb.query # None
    /\ i \in DOMAIN vb.w.filters
    /\ vb' = Rerun([vb.w EXCEPT !.filters =
                      SubSeq(@, 1, i - 1) \o SubSeq(@, i + 1, Len(@))])
    /\ VBUnchanged

\* The button "Clear All Filters"
VBClearFilters ==
    /\ vb.called
    /\ vb.built
    /\ vb.query # None
    /\ vb.w.filters # <<>>
    /\ vb' = Rerun([vb.w EXCEPT !.filters = <<>>])
    /\ VBUnchanged

----------------------------------------------------------------------------
(* Specifications                                                          *)

InitCalls ==
    /\ pc = [c \in Callers |-> "idle"]
    /\ op = [c \in Callers |-> "-"]
    /\ arg = [c \in Callers |-> NoArg]
    /\ conn = [c \in Callers |-> "-"]
    /\ phase = [c \in Callers |-> 1]
    /\ result = [c \in Callers |-> NoCall]
    /\ query_lower = [c \in Callers |-> <<>>]

InitSession ==
    /\ session = FirstRun
    /\ accepted = {}
    /\ handed = {}
    /\ sidebar = IF life = "connected"
                 THEN [connected |-> TRUE, past |-> {},
                       db_connector |-> Some(Connector(dbType, desc, Self, handles))]
                 ELSE NoSidebar

\* A connector as its constructor leaves it
InitFresh ==
    /\ \/ /\ dbType = "SQLite"
          /\ desc \in SQLiteDescs
          /\ MYSQL_AVAILABLE = TRUE
          /\ SQLALCHEMY_AVAILABLE = TRUE
       \/ /\ dbType = "MySQL"
          /\ desc \in MySQLDescs
          /\ MYSQL_AVAILABLE \in BOOLEAN
          /\ SQLALCHEMY_AVAILABLE \in BOOLEAN
    /\ connection = NONE
    /\ engine = NONE
    /\ connection_config = NONE
    /\ handles = [s \in Slots |-> NoHandle]
    /\ life = "fresh"
    /\ cres = NoRes
    /\ dres = NoRes

InitAux ==
    /\ made = NoRes
    /\ tables = NoTables
    /\ vb = NoBuild

Init == InitFresh /\ InitCalls /\ InitSession /\ InitAux

CallStep(c) ==
    \/ \E in \in CallInputs : CallStart(c, in[1], in[2])
    \/ Check(c)
    \/ Scan(c)
    \/ Open(c)
    \/ Exec(c)
    \/ Fetch(c)
    \/ Finish(c)

\* One connector, its lifecycle, and one caller at a time
Next ==
    \/ \E tag \in Tags :
          \E kwargs \in IF tag = "SQLite" THEN SQLiteDescs
                         ELSE IF tag = "MySQL" THEN MySQLDescs
                         ELSE SQLiteDescs \cup MySQLDescs : Create(tag, kwargs)
    \/ Connect
    \/ Disconnect
    \/ CallStep("A")

Spec == Init /\ [][Next]_vars

\* The connectors a session can hold while calls are made: a SQLite connector, a
\* MySQL connector that connected through mysql-connector, one that connected
\* through SQLAlchemy (its engine holds the handle of the connection test), and a
\* MySQL connector that never connected.
InitConnector ==
    /\ \/ /\ dbType = "SQLite"
          /\ desc = [db_path |-> "data.db", host |-> "", database |-> "",
                     username |-> "", port |-> 0]
          /\ MYSQL_AVAILABLE = TRUE
          /\ SQLALCHEMY_AVAILABLE = TRUE
          /\ engine = NONE
          /\ connection_config = NONE
          /\ handles = [s \in Slots |-> NoHandle]
          /\ life = "connected"
       \/ /\ dbType = "MySQL"
          /\ desc = [db_path |-> "", host |-> "db.host", database |-> "shop",
                     username |-> "root", port |-> PortMax]
          /\ \/ /\ MYSQL_AVAILABLE = TRUE
                /\ SQLALCHEMY_AVAILABLE = TRUE
                /\ engine = NONE
                /\ connection_config = "config"
                /\ handles = [s \in Slots |-> NoHandle]
                /\ life = "connected"
             \/ /\ MYSQL_AVAILABLE = FALSE
                /\ SQLALCHEMY_AVAILABLE = TRUE
                /\ engine = "engine"
                /\ connection_config = NONE
                /\ handles = [s \in Slots |->
                                IF s = "p1"
                                THEN [st |-> "open", by |-> "connect", user |-> "-",
                                      cur |-> NoStmt]
                                ELSE NoHandle]
                /\ life = "connected"
             \/ /\ MYSQL_AVAILABLE = TRUE
                /\ SQLALCHEMY_AVAILABLE = TRUE
                /\ engine = NONE
                /\ connection_config = NONE
                /\ handles = [s \in Slots |-> NoHandle]
                /\ life = "fresh"
    /\ connection = NONE
    /\ cres = NoRes
    /\ dres = NoRes

InitValidate == InitConnector /\ InitCalls /\ InitSession /\ InitAux

\* validate_query on every raw SQL string
NextValidate ==
    \/ \E q \in RawQueries :
          CallStart("A", "validate_query", [table |-> <<>>, custom |-> q])
    \/ Check("A")
    \/ Scan("A")
    \/ Open("A")
    \/ Exec("A")
    \/ Fetch("A")
    \/ Finish("A")

SpecValidate == InitValidate /\ [][NextValidate]_vars

\* Two callers whose data-fetching calls interleave, with no connect() or
\* disconnect() in between
NextConcurrent == \E c \in Callers : CallStep(c)

SpecConcurrent == InitValidate /\ [][NextConcurrent]_vars

\* main() on a connected session
NextUI ==
    \/ \E t \in Tables, qt \in QueryTypes : UIChooseQueryType(t, qt)
    \/ \E t \in Tables : \E q \in TypedQueries \cup {default_query(t)} : UIEditQuery(t, q)
    \/ \E t \in Tables : UIValidate(t)
    \/ \E t \in Tables : UIPreview(t)
    \/ UIPrepareFull
    \/ UIClosePreview

InitUI == InitValidate /\ life = "connected"

SpecUI == InitUI /\ [][NextUI]_vars

\* The sidebar form over a browser session: the fields are edited and the buttons
\* Connect and Disconnect are pressed, in any order
NextSidebar ==
    \/ \E db_type \in {"SQLite", "MySQL"} :
          \E connector_params \in IF db_type = "SQLite" THEN SQLiteDescs ELSE MySQLDescs :
             UIEditForm(db_type, connector_params)
    \/ UIConnect
    \/ UIDisconnect

\* The form as first shown: SQLite selected, no path entered, nothing connected
InitSidebar ==
    /\ dbType = "SQLite"
    /\ desc \in {d \in SQLiteDescs : d.db_path = ""}
    /\ MYSQL_AVAILABLE \in BOOLEAN
    /\ SQLALCHEMY_AVAILABLE \in BOOLEAN
    /\ connection = NONE
    /\ engine = NONE
    /\ connection_config = NONE
    /\ handles = [s \in Slots |-> NoHandle]
    /\ life = "fresh"
    /\ cres = NoRes
    /\ dres = NoRes
    /\ InitCalls /\ InitSession /\ InitAux

SpecSidebar == InitSidebar /\ [][NextSidebar]_vars

\* build_visual_query on a connected session (SQLite, or MySQL through
\* mysql-connector)
InitVisual ==
    /\ InitConnector
    /\ life = "connected"
    /\ engine = NONE
    /\ InitCalls
    /\ InitSession
    /\ made = NoRes
    /\ tables = NoTables
    /\ vb \in {Rerun(w) : w \in VisualInputs}
    /\ \A i \in DOMAIN vb.w.filters : WidgetConsistent(vb.w.filters[i])

NextVisual ==
    \/ VBBuild
    \/ VBAddFilter
    \/ \E i \in 1..MaxFilters : VBRemoveFilter(i)
    \/ VBClearFilters

SpecVisual == InitVisual /\ [][NextVisual]_vars

----------------------------------------------------------------------------
(* Properties                                                              *)

\* C1: every Custom SQL string main() hands to get_table_data, for the preview or
\* for the full download, was accepted by validate_query before, and so passes
\* the start-token check and the prohibited-keyword scan.
C1_OnlyValidatedCustomSQL ==
    \A h \in handed :
        h.query_type = "Custom SQL" /\ h.custom # None =>
            h.custom \in accepted /\ PreChecks(h.custom).text = "pass"

\* C2: validate_query on a string whose lowercased, stripped form does not start
\* with select returns ok = False with "Query must start with SELECT"; a string
\* whose form does start with select, in any letter case, is never rejected by
\* the start-token check.
C2_RejectsUnlessStartsWithSelect ==
    pc["A"] = "returned" /\ op["A"] = "validate_query" /\ arg["A"].custom # NoneQuery =>
        IF StartsWith(Strip(LowerStr(arg["A"].custom)), select)
        THEN result["A"].text # "Query must start with SELECT"
        ELSE ~result["A"].ok /\ result["A"].text = "Query must start with SELECT"

\* C2 happens: a string that holds SELECT, but not at its start, was rejected.
C2_Witness ==
    /\ pc["A"] = "returned"
    /\ op["A"] = "validate_query"
    /\ arg["A"].custom # NoneQuery
    /\ Contains(LowerStr(arg["A"].custom), select)
    /\ ~StartsWith(Strip(LowerStr(arg["A"].custom)), select)
    /\ ~result["A"].ok
    /\ result["A"].text = "Query must start with SELECT"

\* C3: validate_query on a string whose lowercase form holds insert, update,
\* delete, drop, create, alter or truncate anywhere returns ok = False, whatever
\* connector it is called on and whatever the dry-run would answer.
C3_RejectsProhibitedSubstring ==
    pc["A"] = "returned" /\ op["A"] = "validate_query" /\ arg["A"].custom # NoneQuery =>
        ((\E w \in { <<"i","n","s","e","r","t">>, <<"u","p","d","a","t","e">>,
                     <<"d","e","l","e","t","e">>, <<"d","r","o","p">>,
                     <<"c","r","e","a","t","e">>, <<"a","l","t","e","r">>,
                     <<"t","r","u","n","c","a","t","e">> } :
              Contains(LowerStr(arg["A"].custom), w))
         => ~result["A"].ok)

\* C3 happens: a string that starts with select and holds drop inside an
\* identifier was rejected as a DROP operation.
C3_Witness ==
    /\ pc["A"] = "returned"
    /\ op["A"] = "validate_query"
    /\ arg["A"].custom # NoneQuery
    /\ StartsWith(Strip(LowerStr(arg["A"].custom)), select)
    /\ Contains(LowerStr(arg["A"].custom), <<"_","d","r","o","p","d","_">>)
    /\ ~result["A"].ok
    /\ result["A"].detail = "DROP"

\* C4 as stated: validate_query always returns a verdict; it returns True only
\* when the start-token check, the keyword scan and the dry-run succeeded; and
\* on every failure of normalization, of obtaining a handle or of the dry-run the
\* verdict is False with a message that carries the failure's message.
C4_Original ==
    pc["A"] = "returned" /\ op["A"] = "validate_query" =>
        /\ result["A"].kind = "verdict"
        /\ result["A"].ok =>
              /\ arg["A"].custom # NoneQuery
              /\ StartsWith(Strip(LowerStr(arg["A"].custom)), select)
              /\ FirstProhibited(Strip(LowerStr(arg["A"].custom))) = 0
              /\ result["A"].of = [kind |-> "validate_query", arg |-> arg["A"], phase |-> 1]
        /\ (~result["A"].ok
            /\ result["A"].text \notin {"Query must start with SELECT",
                                        "operations are not allowed"}) =>
              result["A"].text = "Query error" /\ result["A"].detail # ""

\* C4 amended: as C4, except that when MySQLConnector._get_connection fails the
\* failure's message is reported by st.error and the verdict is False with the
\* fixed message "Cannot validate query - no connection available".
C4_NeverPropagates ==
    pc["A"] = "returned" /\ op["A"] = "validate_query" =>
        /\ result["A"].kind = "verdict"
        /\ result["A"].ok =>
              /\ arg["A"].custom # NoneQuery
              /\ StartsWith(Strip(LowerStr(arg["A"].custom)), select)
              /\ FirstProhibited(Strip(LowerStr(arg["A"].custom))) = 0
              /\ result["A"].of = [kind |-> "validate_query", arg |-> arg["A"], phase |-> 1]
        /\ (~result["A"].ok
            /\ result["A"].text \notin {"Query must start with SELECT",
                                        "operations are not allowed"}) =>
              \/ result["A"].text = "Query error" /\ result["A"].detail # ""
              \/ /\ dbType = "MySQL"
                 /\ engine = NONE
                 /\ result["A"].text = "Cannot validate query - no connection available"
                 /\ result["A"].reported

\* C4 happens: a query that passed both checks on a MySQL connector whose
\* _get_connection failed.
C4_Witness ==
    /\ pc["A"] = "returned"
    /\ op["A"] = "validate_query"
    /\ PreChecks(arg["A"].custom).text = "pass"
    /\ dbType = "MySQL"
    /\ connection_config # NONE
    /\ ~result["A"].ok
    /\ result["A"].text = "Cannot validate query - no connection available"

\* C5: get_table_data on a connector that was disconnected returns what it returns
\* on a connector that was never connected: on SQLite whatever the file gives, on
\* MySQL the failure marker None, after an error was reported.
C5_AfterDisconnectAsFresh ==
    \A c \in Callers :
        pc[c] = "returned" /\ op[c] = "get_table_data" /\ life = "disconnected" =>
            IF dbType = "SQLite"
            THEN result[c] \in {Value(<<[kind |-> op[c], arg |-> arg[c], phase |-> 1]>>),
                                Failure(op[c], "Error", "OperationalError"),
                                Failure(op[c], "Error", "DatabaseError")}
            ELSE result[c].kind = "marker" /\ result[c].reported

\* C6: disconnect() never raises, and in every state of the connector (never
\* connected, connect failed, connected, disconnected) a second disconnect()
\* leaves the fields the first one left, and the same handles when the first
\* dispose() went through.
C6_DisconnectIdempotent ==
    /\ dres.called => ~dres.raised
    /\ \A cf1 \in BOOLEAN, df1 \in BOOLEAN, cf2 \in BOOLEAN, df2 \in BOOLEAN :
          LET one == Disconnected(Self, handles, cf1, df1)
              two == Disconnected(SelfOf(one), one.handles, cf2, df2)
          IN  /\ ~one.raised
              /\ ~two.raised
              /\ SelfOf(two) = SelfOf(one)
              /\ ~df1 => two.handles = one.handles

\* C6 happens: disconnect() has returned on a connector that holds an engine, whose
\* pooled handles it released; the next disconnect() starts here.
C6_Witness ==
    /\ dres.called
    /\ life = "disconnected"
    /\ engine # NONE
    /\ cres = NoRes
    /\ \A s \in PoolSlots : handles[s] = NoHandle
    /\ Disconnected(Self, handles, FALSE, FALSE).handles = handles

\* C7: when a data-fetching call returns, with a result or with a failure marker,
\* no handle is still open in its hands.
C7_HandlesClosedOnReturn ==
    \A c \in Callers :
        pc[c] = "returned" =>
            \A s \in Slots : ~(handles[s].st = "open" /\ handles[s].user = c)

\* C8 as stated: while two calls interleave, each uses only a handle it opened
\* itself, no handle is used by both, and each returns the rows of its own
\* statement.
C8_Original ==
    /\ \A c \in Callers :
          pc[c] \in {"exec", "fetch"} =>
              /\ handles[conn[c]].st = "open"
              /\ handles[conn[c]].user = c
              /\ handles[conn[c]].by = c
    /\ \A c \in Callers, d \in Callers :
          c # d /\ pc[c] \in {"exec", "fetch"} /\ pc[d] \in {"exec", "fetch"} =>
              conn[c] # conn[d]
    /\ \A c \in Callers :
          pc[c] = "returned" /\ result[c].ok =>
              result[c].of =
                 IF op[c] = "validate_query"
                 THEN [kind |-> op[c], arg |-> arg[c], phase |-> 1]
                 ELSE IF op[c] = "get_table_info"
                 THEN << [kind |-> op[c], arg |-> arg[c], phase |-> 1],
                         [kind |-> op[c], arg |-> arg[c], phase |-> 2] >>
                 ELSE <<[kind |-> op[c], arg |-> arg[c], phase |-> 1]>>

\* C8 amended: while two calls interleave, no handle is in the hands of both at
\* one time, each call reads the rows of its own statement and returns them,
\* and a call on SQLite or through mysql-connector uses only a handle it opened
\* itself; a call through the SQLAlchemy engine takes its handle from the pool,
\* where connect() or an earlier call may have opened it.
C8_NoSharedHandle ==
    /\ \A c \in Callers :
          pc[c] \in {"exec", "fetch"} =>
              /\ handles[conn[c]].st = "open"
              /\ handles[conn[c]].user = c
              /\ ~UsesEngine => handles[conn[c]].by = c
              /\ UsesEngine => conn[c] \in PoolSlots
              /\ pc[c] = "fetch" => handles[conn[c]].cur = Stmt(c)
    /\ \A c \in Callers, d \in Callers :
          c # d /\ pc[c] \in {"exec", "fetch"} /\ pc[d] \in {"exec", "fetch"} =>
              conn[c] # conn[d]
    /\ \A c \in Callers :
          pc[c] = "returned" /\ result[c].ok =>
              result[c].of =
                 IF op[c] = "validate_query"
                 THEN [kind |-> op[c], arg |-> arg[c], phase |-> 1]
                 ELSE IF op[c] = "get_table_info"
                 THEN << [kind |-> op[c], arg |-> arg[c], phase |-> 1],
                         [kind |-> op[c], arg |-> arg[c], phase |-> 2] >>
                 ELSE <<[kind |-> op[c], arg |-> arg[c], phase |-> 1]>>

\* C8 happens: both calls hold a handle and have their statements on it; one of
\* the two handles was opened by connect() and came out of the engine's pool.
C8_Witness ==
    /\ pc["A"] = "fetch"
    /\ pc["B"] = "fetch"
    /\ UsesEngine
    /\ conn["A"] # conn["B"]
    /\ handles[conn["A"]].by = "connect"
    /\ handles[conn["B"]].by = "B"

\* C9: SQLiteConnector.connect() where no file exists returns False, without
\* raising, after the one report "Database file not found", and neither opens
\* the database file nor probes the network.
C9_MissingFile ==
    dbType = "SQLite" =>
        /\ \A env \in SQLiteEnvs :
              ~env.exists =>
                  LET out == SQLiteConnect(env)
                  IN  /\ ~out.ret
                      /\ ~out.raised
                      /\ out.errors = <<"Database file not found">>
                      /\ \A i \in DOMAIN out.log : out.log[i] \notin {"open", "probe"}
        /\ (cres.called /\ cres.errors = <<"Database file not found">>) =>
              /\ ~cres.ret
              /\ ~cres.raised
              /\ cres.log = <<"exists">>
              /\ handles = [s \in Slots |-> NoHandle]

\* C9 happens: connect() has returned False on a SQLite connector whose file
\* does not exist.
C9_Witness ==
    /\ dbType = "SQLite"
    /\ life = "connect_failed"
    /\ cres.called
    /\ ~cres.ret
    /\ cres.errors = <<"Database file not found">>
    /\ cres.log = <<"exists">>

C11_FactoryByTag ==
    /\ \A tag \in Tags, kwargs \in SQLiteDescs \cup MySQLDescs :
          LET out == create_database_connector(tag, kwargs)
          IN  /\ tag = "SQLite" => out.raised = "" /\ out.class = "SQLiteConnector"
                                   /\ out.desc.db_path = kwargs.db_path
              /\ tag = "MySQL" => out.raised = "" /\ out.class = "MySQLConnector"
                                  /\ out.desc.host = kwargs.host
                                  /\ out.desc.port = kwargs.port
              /\ tag \notin {"SQLite", "MySQL"} =>
                    out.raised = "ValueError" /\ out.class = NONE
    /\ made.called =>
          IF made.tag \in {"SQLite", "MySQL"}
          THEN /\ made.raised = ""
               /\ dbType = made.tag
               /\ desc = made.desc
               /\ life = "fresh"
               /\ engine = NONE
               /\ connection_config = NONE
          ELSE made.raised = "ValueError" /\ made.class = NONE

\* C11 happens: the factory was called with the tag 'sqlite', which differs from
\* 'SQLite' in letter case only, and raised ValueError.
C11_Witness ==
    /\ made.called
    /\ made.tag = "sqlite"
    /\ made.raised = "ValueError"
    /\ made.class = NONE

\* C12: get_table_data never raises: it returns a table or None; None only after
\* an error was reported, a table only for the statement of the call itself,
\* executed and read on the call's handle.
C12_GetTableDataNeverRaises ==
    \A c \in Callers :
        pc[c] = "returned" /\ op[c] = "get_table_data" =>
            /\ result[c].kind \in {"value", "marker"}
            /\ result[c].kind = "marker" => ~result[c].ok /\ result[c].reported
            /\ result[c].kind = "value" =>
                  /\ result[c].ok
                  /\ conn[c] # "-"
                  /\ result[c].of = <<[kind |-> "get_table_data", arg |-> arg[c],
                                       phase |-> 1]>>

\* C12 happens: get_table_data was given a Custom SQL string, the engine refused
\* the statement, and the call returned None after reporting.
C12_Witness ==
    /\ pc["A"] = "returned"
    /\ op["A"] = "get_table_data"
    /\ arg["A"].custom # <<>>
    /\ result["A"].kind = "marker"
    /\ result["A"].detail = "DatabaseError"
    /\ result["A"].reported

\* C13: the list get_tables returns is in ascending order, on SQLite and on both
\* MySQL paths, in whatever order the catalog delivers the names.
C13_TablesSorted ==
    tables.set =>
        \A i \in DOMAIN tables.names, j \in DOMAIN tables.names :
            i < j => NameLeq(tables.names[i], tables.names[j])

\* C20: during validate_query a handle is opened, used or closed only for a
\* string that has passed the start-token check and the prohibited-keyword scan;
\* a call that returns a rejection of one of the two checks holds no handle and
\* has sent no statement.
C20_HandleOnlyAfterChecks ==
    /\ [][\A c \in Callers :
            (/\ op[c] = "validate_query"
             /\ pc[c] \notin {"idle", "returned"}
             /\ (handles' # handles \/ conn'[c] # conn[c])) =>
                /\ arg[c].custom # NoneQuery
                /\ StartsWith(Strip(LowerStr(arg[c].custom)), select)
                /\ \A w \in { <<"i","n","s","e","r","t">>, <<"u","p","d","a","t","e">>,
                              <<"d","e","l","e","t","e">>, <<"d","r","o","p">>,
                              <<"c","r","e","a","t","e">>, <<"a","l","t","e","r">>,
                              <<"t","r","u","n","c","a","t","e">> } :
                      ~Contains(LowerStr(arg[c].custom), w)]_vars
    /\ [](\A c \in Callers :
            (/\ pc[c] = "returned"
             /\ op[c] = "validate_query"
             /\ result[c].text \in {"Query must start with SELECT",
                                    "operations are not allowed"}) =>
                /\ conn[c] = "-"
                /\ result[c].of = NoStmt
                /\ \A s \in Slots : handles[s].user # c /\ handles[s].by # c
                                    /\ handles[s].cur = NoStmt)

\* C20 happens: validate_query has returned the rejection of the keyword scan for
\* a string that starts with select, and no handle is in use or holds a statement.
C20_Witness ==
    /\ pc["A"] = "returned"
    /\ op["A"] = "validate_query"
    /\ result["A"].text = "operations are not allowed"
    /\ conn["A"] = "-"
    /\ \A s \in Slots : handles[s].user = "-" /\ handles[s].cur = NoStmt

\* ---- the visual query builder ----

\* The positions of s where sub occurs
Positions(s, sub) ==
    {i \in 1..(Len(s) - Len(sub) + 1) : SubSeq(s, i, i + Len(sub) - 1) = sub}

\* The first position of s where sub occurs, 0 when there is none
IndexOf(s, sub) ==
    IF Positions(s, sub) = {} THEN 0
    ELSE CHOOSE i \in Positions(s, sub) : \A j \in Positions(s, sub) : i <= j

\* A run of build_visual_query has returned a statement
VBQuery == vb.called /\ vb.built /\ vb.query # None

KwWhere == <<" ","W","H","E","R","E"," ">>
KwFrom  == <<" ","F","R","O","M"," ">>
KwOrder == <<" ","O","R","D","E","R"," ","B","Y"," ">>
KwLimit == <<" ","L","I","M","I","T"," ">>

\* C14: a statement built from an empty filter list holds no WHERE clause; one built
\* from a non-empty filter list holds exactly one, after the FROM clause and before
\* any ORDER BY or LIMIT clause.
C14_OneWhereClause ==
    VBQuery =>
      LET q == vb.query[1]
      IN  /\ vb.w.filters = <<>> => Positions(q, KwWhere) = {}
          /\ vb.w.filters # <<>> =>
               /\ Cardinality(Positions(q, KwWhere)) = 1
               /\ IndexOf(q, KwFrom) > 0
               /\ IndexOf(q, KwFrom) < IndexOf(q, KwWhere)
               /\ \A kw \in {KwOrder, KwLimit} :
                    \A i \in Positions(q, kw) : IndexOf(q, KwWhere) < i
          /\ vb.w.sort_enabled => Positions(q, KwOrder) # {}
          /\ vb.w.limit_enabled => Positions(q, KwLimit) # {}

C14_Witness ==
    /\ VBQuery
    /\ Len(vb.w.filters) = 2
    /\ vb.w.sort_enabled
    /\ vb.w.limit_enabled
    /\ Positions(vb.query[1], KwWhere) # {}

\* The text of the WHERE clause of q: what follows " WHERE " up to the ORDER BY or
\* LIMIT clause, or to the end
WhereText(q) ==
    LET later == {i \in Positions(q, KwOrder) \cup Positions(q, KwLimit) :
                    i > IndexOf(q, KwWhere)}
        stop  == IF later = {} THEN Len(q) + 1
                 ELSE CHOOSE i \in later : \A j \in later : i <= j
    IN  SubSeq(q, IndexOf(q, KwWhere) + Len(KwWhere), stop - 1)

\* The first n rendered conditions, each after the first behind its own keyword
RECURSIVE ConditionsInOrder(_, _)
ConditionsInOrder(filters, n) ==
    IF n = 1 THEN Condition(dbType, filters[1])
    ELSE ConditionsInOrder(filters, n - 1) \o <<" ">> \o
         (IF filters[n].logic = "OR" THEN <<"O","R">> ELSE <<"A","N","D">>) \o <<" ">> \o
         Condition(dbType, filters[n])

\* C15: the WHERE clause is the rendered conditions in filter order, the first with no
\* logic keyword (whatever its own logic field), each later one behind exactly its own
\* AND or OR, with no parentheses.
C15_ConditionsInOrder ==
    VBQuery /\ vb.w.filters # <<>> =>
      \A text \in {WhereText(vb.query[1])} :
          /\ text = ConditionsInOrder(vb.w.filters, Len(vb.w.filters))
          /\ \A i \in DOMAIN text : text[i] \notin {"(", ")"}
          /\ \A i \in DOMAIN vb.w.filters : Condition(dbType, vb.w.filters[i]) # <<>>

\* The example: age > 30, then city = 'Rome' under OR, on SQLite
C15_Witness ==
    /\ VBQuery
    /\ dbType = "SQLite"
    /\ Len(vb.w.filters) = 2
    /\ vb.w.filters[2].logic = "OR"
    /\ vb.query = Some(<<"S","E","L","E","C","T"," ","*"," ","F","R","O","M"," ","[","p","e","o","p","l","e","]"," ","W","H","E","R","E"," ","[","a","g","e","]"," ",">"," ","3","0"," ","O","R"," ","[","c","i","t","y","]"," ","="," ","'","R","o","m","e","'">>)

\* The identifiers a statement quotes: the selected columns when listed, the table,
\* one column per filter, the sort column
QuotedIdentifiers(w) ==
    (IF w.col_selection_type = "All Columns" THEN 0 ELSE Len(w.selected)) + 1 +
    Len(w.filters) + (IF w.sort_enabled /\ w.sort_column # <<>> THEN 1 ELSE 0)

\* C16: the MySQL statement is the SQLite statement with the bracket pair of every
\* quoted identifier replaced by a pair of backticks, and nothing else changed.
C16_DialectsDifferInQuotingOnly ==
    VBQuery =>
      \A sqlite \in {build_visual_query("SQLite", vb.w)[1]} :
      \A mysql \in {build_visual_query("MySQL", vb.w)[1]} :
      \A differ \in {{i \in DOMAIN sqlite : mysql[i] # sqlite[i]}} :
          /\ vb.query[1] = IF dbType = "SQLite" THEN sqlite ELSE mysql
          /\ Len(mysql) = Len(sqlite)
          /\ \A i \in differ : mysql[i] = Backtick /\ sqlite[i] \in {"[", "]"}
          /\ Cardinality({i \in differ : sqlite[i] = "["}) = QuotedIdentifiers(vb.w)
          /\ Cardinality({i \in differ : sqlite[i] = "]"}) = QuotedIdentifiers(vb.w)
          /\ \A i \in DOMAIN sqlite : sqlite[i] # Backtick

\* A MySQL statement with a listed column, a filter and a sort column
C16_Witness ==
    /\ VBQuery
    /\ dbType = "MySQL"
    /\ vb.w.col_selection_type = "Specific Columns"
    /\ Len(vb.w.filters) = 2
    /\ vb.w.sort_enabled
    /\ Cardinality(Positions(vb.query[1], <<Backtick>>)) = 12

\* The number of single quotes in s
Quotes(s) == Cardinality({i \in DOMAIN s : s[i] = "'"})

\* A filter that puts a text value into a literal
TextLiteral(f) ==
    /\ ~is_numeric(f.column)
    /\ f.operator \in {"equals (=)", "not equals (!=)"} \cup LikeOperators

\* The single quotes of the first n conditions when every value quote is doubled: the
\* two that delimit each text literal and two for each quote of its value
RECURSIVE DoubledQuotes(_, _)
DoubledQuotes(filters, n) ==
    IF n = 0 THEN 0
    ELSE DoubledQuotes(filters, n - 1) +
         (IF TextLiteral(filters[n]) THEN 2 + 2 * Quotes(filters[n].value.s) ELSE 0)

\* C17: on a non-numeric column with a value-taking operator (equals, not equals,
\* contains, starts with, ends with) every single quote of the value is doubled inside
\* the literal, so the WHERE clause holds two quotes per literal and two per value quote.
C17_QuotesDoubled ==
    VBQuery /\ vb.w.filters # <<>> =>
      Quotes(WhereText(vb.query[1])) = DoubledQuotes(vb.w.filters, Len(vb.w.filters))

\* The declared type of a column holds a word of the numeric vocabulary, whatever the
\* case of its letters
NumericType(column) ==
    \E i \in DOMAIN column_info :
       /\ column_info[i].name = column
       /\ \E type \in {LowerStr(column_info[i].type)} :
            \E word \in { <<"i","n","t">>, <<"r","e","a","l">>, <<"n","u","m","e","r","i","c">>, <<"d","e","c","i","m","a","l">>, <<"f","l","o","a","t">>, <<"d","o","u","b","l","e">>,
                          <<"s","e","r","i","a","l">>, <<"b","i","g","i","n","t">> } : Contains(type, word)

\* The symbol of a comparison operator, between blanks
Symbol(operator) ==
    CASE operator = "equals (=)"            -> <<" ","="," ">>
      [] operator = "not equals (!=)"       -> <<" ","!","="," ">>
      [] operator = "greater than (>)"      -> <<" ",">"," ">>
      [] operator = "less than (<)"         -> <<" ","<"," ">>
      [] operator = "greater or equal (>=)" -> <<" ",">","="," ">>
      [] operator = "less or equal (<=)"    -> <<" ","<","="," ">>

\* s with every single quote written twice
Doubled(s) == Concat([i \in DOMAIN s |-> IF s[i] = "'" THEN <<"'", "'">> ELSE <<s[i]>>])

EndsWith(s, p) == Len(s) >= Len(p) /\ SubSeq(s, Len(s) - Len(p) + 1, Len(s)) = p

RECURSIVE ColumnList(_, _)
ColumnList(selected, n) ==
    IF n = 1 THEN QuoteIdent(dbType, selected[1])
    ELSE ColumnList(selected, n - 1) \o <<","," ">> \o QuoteIdent(dbType, selected[n])

\* C19: with no column selected build_visual_query returns None; a statement it returns
\* never has an empty SELECT list: the list is * or the selected columns, quoted and
\* comma-joined in the order of the selection.
C19_NoEmptySelectList ==
    vb.called /\ vb.built =>
      /\ vb.w.col_selection_type = "Specific Columns" /\ vb.w.selected = <<>>
           => vb.query = None
      /\ vb.query # None =>
           \A q \in {vb.query[1]} :
           \A list \in {SubSeq(q, Len(<<"S","E","L","E","C","T"," ">>) + 1, IndexOf(q, KwFrom) - 1)} :
             /\ StartsWith(q, <<"S","E","L","E","C","T"," ">>)
             /\ list # <<>>
             /\ vb.w.col_selection_type = "All Columns" => list = <<"*">>
             /\ vb.w.col_selection_type = "Specific Columns" =>
                  /\ vb.w.selected # <<>>
                  /\ list = ColumnList(vb.w.selected, Len(vb.w.selected))

\* A run with "Specific Columns" and nothing selected
C19_Witness ==
    /\ vb.called
    /\ vb.built
    /\ vb.w.col_selection_type = "Specific Columns"
    /\ vb.w.selected = <<>>
    /\ vb.query = None

\* ---- connect() ----

\* The positions of the I/O event e in the log of the last connect()
Events(e) == {i \in DOMAIN cres.log : cres.log[i] = e}

\* The protocol-level login attempts of the last connect()
Logins == Events("login_mc") \cup Events("login_sa")

\* C21: connect() returns True only if during that call a handle was opened, a
\* round-trip query succeeded on it and the handle was closed before returning.
C21_TrueOnlyAfterRoundTrip ==
    cres.called /\ cres.ret =>
      \E i \in Events("open") : \E j \in Events("query") : \E k \in Events("close") :
         i < j /\ j < k

\* C22: MySQLConnector.connect() with an empty host, database or username, or a port
\* outside 1..65535, returns False with no reachability probe, no login and no other
\* I/O.
C22_ValidationBeforeIO ==
    /\ cres.called
    /\ dbType = "MySQL"
    /\ \/ desc.host = ""
       \/ desc.database = ""
       \/ desc.username = ""
       \/ desc.port < 1
       \/ desc.port > 65535
    =>   /\ ~cres.ret
         /\ ~cres.raised
         /\ cres.log = <<>>
         /\ cres.errors # <<>>

\* A connect() on a descriptor whose only fault is the port one above the range
C22_Witness ==
    /\ cres.called
    /\ dbType = "MySQL"
    /\ desc.host # "" /\ desc.database # "" /\ desc.username # ""
    /\ desc.port = 65536
    /\ ~cres.ret

\* C23: in MySQLConnector.connect() the reachability probe precedes every login, and
\* when the probe fails connect() returns False with no login through either driver.
C23_ProbeBeforeLogin ==
    cres.called /\ dbType = "MySQL" =>
      /\ \A i \in Logins : \E j \in Events("probe") : j < i
      /\ Cardinality(Events("probe")) <= 1
      /\ (\E i \in DOMAIN cres.errors :
             cres.errors[i] \in {"Cannot reach host:port",
                                 "Network connectivity test failed"})
         => (~cres.ret /\ Logins = {} /\ cres.log = <<"probe">>)

\* The probe was refused
C23_Witness ==
    /\ cres.called
    /\ dbType = "MySQL"
    /\ cres.errors = <<"Cannot reach host:port">>
    /\ cres.log = <<"probe">>
    /\ ~cres.ret

\* C24: one connect() makes at most one protocol-level login attempt; after that
\* attempt fails it returns False without a second attempt or a second method.
C24_AtMostOneLogin ==
    cres.called => Cardinality(Logins) <= 1

\* C25: the statement holds an ORDER BY clause exactly when sorting is enabled and a
\* sort column is chosen; the clause names that one quoted column and ASC or DESC,
\* comes after the WHERE clause and before the LIMIT clause; LIMIT is there only when
\* the row cap is enabled.
C25_OrderByAndLimit ==
    VBQuery =>
      \A q \in {vb.query[1]} :
      \A order \in {Positions(q, KwOrder)} :
      \A limit \in {Positions(q, KwLimit)} :
        /\ order # {} <=> (vb.w.sort_enabled /\ vb.w.sort_column # <<>>)
        /\ Cardinality(order) <= 1
        /\ Cardinality(limit) <= 1
        /\ limit # {} => vb.w.limit_enabled
        /\ vb.w.limit_enabled => EndsWith(q, KwLimit \o IntStr(vb.w.row_limit))
        /\ \A i \in order :
             /\ \A j \in Positions(q, KwWhere) : j < i
             /\ \A j \in limit : i < j
             /\ \E direction \in { <<"A","S","C">>, <<"D","E","S","C">> } :
                  /\ direction = <<"A","S","C">> <=> vb.w.sort_direction = "Ascending (A-Z)"
                  /\ \A stop \in {IF limit = {} THEN Len(q) + 1
                                  ELSE CHOOSE j \in limit : TRUE} :
                       SubSeq(q, i + Len(KwOrder), stop - 1) =
                         QuoteIdent(dbType, vb.w.sort_column) \o <<" ">> \o direction

\* A descending sort between a WHERE and a LIMIT clause
C25_Witness ==
    /\ VBQuery
    /\ vb.w.filters # <<>>
    /\ vb.w.sort_enabled
    /\ vb.w.sort_direction = "Descending (Z-A)"
    /\ vb.w.limit_enabled
    /\ EndsWith(vb.query[1], <<" ","O","R","D","E","R"," ","B","Y"," ","[","a","g","e","]"," ","D","E","S","C"," ","L","I","M","I","T"," ","1","0","0","0">>)

\* C27: after a connect() that returned False, every data-fetching call on the
\* connector returns its failure marker (an empty list, None, or a rejection) until a
\* later connect() returns True.
C27_FailedConnectBlocksCalls ==
    life = "connect_failed" =>
      \A c \in Callers : pc[c] = "returned" => ~result[c].ok

\* ---- main(): preview and download ----

\* The number a sequence of digits writes
RECURSIVE DigitsValue(_)
DigitsValue(ds) ==
    IF ds = <<>> THEN 0
    ELSE 10 * DigitsValue(SubSeq(ds, 1, Len(ds) - 1)) +
         (CHOOSE d \in 0..9 : Digits[d + 1] = ds[Len(ds)])

\* The row cap a statement carries: the number of its last LIMIT clause, when that
\* clause ends the statement or is followed by an OFFSET clause only; None otherwise
RowCap(q) ==
    LET at == Positions(UpperStr(q), KwLimit)
    IN  IF at = {} THEN None
        ELSE LET i    == CHOOSE k \in at : \A j \in at : j <= k
                 rest == SubSeq(q, i + Len(KwLimit), Len(q))
                 n    == Cardinality({k \in DOMAIN rest :
                            \A j \in 1..k : \E d \in DOMAIN Digits : Digits[d] = rest[j]})
                 tail == SubSeq(rest, n + 1, Len(rest))
             IN  IF n > 0 /\ (tail = <<>> \/
                              (StartsWith(tail, <<" ","O","F","F","S","E","T"," ">>) /\
                               Positions(tail, <<" ">>) = {1, Len(<<" ","O","F","F","S","E","T"," ">>)}))
                 THEN Some(DigitsValue(SubSeq(rest, 1, n)))
                 ELSE None

\* C26: for every query type and every query text, the statement executed to build
\* the preview carries a row cap of at most 100.
C26_PreviewCapped ==
    \A h \in handed :
       h.use = "preview" =>
          \A cap \in {RowCap(h.query)} : cap # None /\ cap[1] <= PreviewCap

\* C29: whenever the download buttons are shown under a preview, the data set they
\* offer was fetched in full for the table and query now previewed, never for one
\* previewed before.
C29_DownloadOfCurrentPreview ==
    session.preview.set /\ session.download.set =>
      /\ session.download.table = session.preview.table
      /\ session.download.of = FullCall(session.preview)

\* ---- get_table_data of the two connectors ----

KwOffset == <<" ","O","F","F","S","E","T"," ">>

\* C30: with no custom query, the SQLite and the MySQL get_table_data build the
\* same statement up to the identifier quoting, for every table, limit and offset
\* (0 included): a LIMIT clause exactly when a limit is given and an OFFSET clause
\* exactly when an offset is given together with a limit.
C30_SameStatementUpToQuoting ==
    \A h \in handed :
       h.text = None =>
         \A sqlite \in {SQLiteTableQuery(TableChars(h.table), None, h.limit, h.offset)} :
         \A mysql \in {MySQLTableQuery(TableChars(h.table), None, h.limit, h.offset)} :
            /\ h.query = IF dbType = "SQLite" THEN sqlite ELSE mysql
            /\ Len(mysql) = Len(sqlite)
            /\ \A i \in DOMAIN sqlite :
                  mysql[i] # sqlite[i] => mysql[i] = Backtick /\ sqlite[i] \in {"[", "]"}
            /\ \A q \in {sqlite, mysql} :
                  /\ Positions(q, KwLimit) # {} <=> h.limit # None
                  /\ Positions(q, KwOffset) # {} <=> (h.limit # None /\ h.offset # None)

\* ---- the buttons Connect and Disconnect ----

\* C28: over any sequence of presses of the buttons Connect and Disconnect, the
\* session never drops or replaces the connector it holds without disconnect()
\* having been called on it: every connector st.session_state.db_connector names no
\* more was disconnected, so the only connector that connected and was not
\* disconnected is the one st.session_state.db_connector names.
C28_NoConnectorDroppedUndisconnected ==
    \A c \in sidebar.past : c.disconnected

====
